---- MODULE Spec2Model ----
(***************************************************************************)
(* PC Parts Tracker (src/src/App.tsx, later revision, lines 569-1371):     *)
(* the catalog of parts, the add-part form, the price editor of the rows,  *)
(* the price-history rule, the derived values, the displayed list and the  *)
(* saved builds kept in localStorage.                                      *)
(*                                                                         *)
(* Representation.                                                         *)
(*  - A text (JS string) is a sequence of one-character strings.           *)
(*  - A JS number is a record with a kind k: a finite value is             *)
(*    [k |-> "num", v |-> thousandths]; NaN, +Infinity and -Infinity are   *)
(*    kinds of their own.  Finite values are exact decimals with at most   *)
(*    three fractional digits; binary rounding error of IEEE doubles is    *)
(*    not represented, and the texts used as inputs never have a third     *)
(*    fractional digit of 5 (where toFixed depends on the binary value).   *)
(*  - An optional property is Absent (no such key), Undefined (key         *)
(*    present, value undefined), Null (after JSON) or a value.             *)
(*  - Date.now().toString() is the clock reading `now`; it does not have   *)
(*    to advance between two events.  toLocaleDateString() is the day      *)
(*    number `today`.                                                      *)
(***************************************************************************)
EXTENDS Integers, Sequences, FiniteSets, TLC

VARIABLES
    parts,          \* useState<Part[]>          (line 638)
    newPart,        \* the add-part form         (line 653)
    showAddForm,    \* line 639
    showSaveDialog, \* line 641
    showLoadDialog, \* line 642
    buildName,      \* line 643
    selectedType,   \* line 645
    sortBy,         \* line 646
    savedBuilds,    \* line 644
    storage,        \* localStorage item 'savedBuilds'
    now,            \* Date.now()
    today,          \* new Date().toLocaleDateString()
    phase,          \* "mounted": first render done, effects pending; "ready"
    events,         \* number of events (user events, clock advances) so far
    last            \* the event handled last (observer, for stating claims)

vars == <<parts, newPart, showAddForm, showSaveDialog, showLoadDialog,
          buildName, selectedType, sortBy, savedBuilds, storage, now, today, phase, events, last>>

(***************************************************************************)
(* Bounds of the exploration.                                              *)
(***************************************************************************)
MaxParts == 2
MaxStores == 2
MaxHist == 2
MaxBuilds == 3
MaxClock == 2
MaxDay == 1
MaxEvents == 6
MaxBuildEvents == 8
MaxDeriveEvents == 2
MaxFormEvents == 6
MaxViewParts == 4
MaxViewEvents == 2
MaxEditEvents == 4
MaxHistoryEvents == 8

(***************************************************************************)
(* Texts.                                                                  *)
(***************************************************************************)
Digits == <<"0", "1", "2", "3", "4", "5", "6", "7", "8", "9">>

IsDigit(c) == \E i \in 1..10 : Digits[i] = c

DigitVal(c) == (CHOOSE i \in 1..10 : Digits[i] = c) - 1

T_Infinity == <<"I", "n", "f", "i", "n", "i", "t", "y">>

T_NaN == <<"N", "a", "N">>

IsPrefix(p, s) == Len(p) <= Len(s) /\ SubSeq(s, 1, Len(p)) = p

\* String.prototype.replace('$', ''): the first '$' is removed, wherever it is.
RECURSIVE StripDollar(_)
StripDollar(s) ==
    IF s = <<>> THEN <<>>
    ELSE IF s[1] = "$" THEN Tail(s)
    ELSE <<s[1]>> \o StripDollar(Tail(s))

\* String.prototype.trim(), for the white space of the alphabet.
RECURSIVE TrimLeft(_)
TrimLeft(s) == IF s # <<>> /\ s[1] = " " THEN TrimLeft(Tail(s)) ELSE s

RECURSIVE TrimRight(_)
TrimRight(s) ==
    IF s # <<>> /\ s[Len(s)] = " " THEN TrimRight(SubSeq(s, 1, Len(s) - 1)) ELSE s

\* Variant: the name is taken as typed, blanks and all.
Trim_Nothing(s) == s

Trim(s) == TrimRight(TrimLeft(s))

(***************************************************************************)
(* Numbers.                                                                *)
(***************************************************************************)
Num(v) == [k |-> "num", v |-> v]
NaN == [k |-> "nan"]
PosInf == [k |-> "inf"]
NegInf == [k |-> "ninf"]

isNaN(x) == x.k = "nan"

\* x < y on numbers (false when either is NaN).
NumLess(x, y) ==
    /\ x.k # "nan" /\ y.k # "nan"
    /\ \/ x.k = "ninf" /\ y.k # "ninf"
       \/ x.k = "num" /\ y.k = "inf"
       \/ x.k = "num" /\ y.k = "num" /\ x.v < y.v

\* x + y on numbers.
NumAdd(x, y) ==
    IF x.k = "nan" \/ y.k = "nan" THEN NaN
    ELSE IF x.k = "num" /\ y.k = "num" THEN Num(x.v + y.v)
    ELSE IF x.k = "num" THEN y
    ELSE IF y.k = "num" THEN x
    ELSE IF x.k = y.k THEN x
    ELSE NaN

\* x !== y on numbers (NaN differs from everything, itself included).
NumStrictNe(x, y) == x.k = "nan" \/ y.k = "nan" \/ x # y

RECURSIVE DigitCount(_)
DigitCount(s) == IF s # <<>> /\ IsDigit(s[1]) THEN 1 + DigitCount(Tail(s)) ELSE 0

\* The value of the decimal digits s[1..n].
RECURSIVE DigitsValue(_, _)
DigitsValue(s, n) ==
    IF n = 0 THEN 0 ELSE DigitsValue(s, n - 1) * 10 + DigitVal(s[n])

\* The first three fractional digits, in thousandths.
FracMillis(f, n) ==
    (IF n >= 1 THEN DigitVal(f[1]) * 100 ELSE 0)
    + (IF n >= 2 THEN DigitVal(f[2]) * 10 ELSE 0)
    + (IF n >= 3 THEN DigitVal(f[3]) ELSE 0)

\* parseFloat: leading white space is skipped, then the longest prefix that
\* is a decimal literal is read ([sign] digits [. digits] | [sign] . digits |
\* [sign] Infinity); what follows is ignored; no such prefix gives NaN.
\* Exponents are not read: no text of the model contains an 'e' after digits.
parseFloat(s) ==
    LET t == TrimLeft(s)
        neg == t # <<>> /\ t[1] = "-"
        u == IF t # <<>> /\ t[1] \in {"-", "+"} THEN Tail(t) ELSE t
        ni == DigitCount(u)
        rest == SubSeq(u, ni + 1, Len(u))
        hasDot == rest # <<>> /\ rest[1] = "."
        f == IF hasDot THEN Tail(rest) ELSE <<>>
        nf == DigitCount(f)
        m == DigitsValue(u, ni) * 1000 + FracMillis(f, nf)
    IN  IF IsPrefix(T_Infinity, u) THEN (IF neg THEN NegInf ELSE PosInf)
        ELSE IF ni = 0 /\ nf = 0 THEN NaN
        ELSE Num(IF neg THEN 0 - m ELSE m)

RECURSIVE NatText(_)
NatText(n) ==
    IF n < 10 THEN <<Digits[n + 1]>>
    ELSE NatText(n \div 10) \o <<Digits[(n % 10) + 1]>>

\* Number.prototype.toFixed(2): nearest hundredth; a negative value keeps its
\* sign even when it rounds to zero.
toFixed2(x) ==
    CASE x.k = "nan" -> T_NaN
      [] x.k = "inf" -> T_Infinity
      [] x.k = "ninf" -> <<"-">> \o T_Infinity
      [] x.k = "num" ->
            LET a == IF x.v < 0 THEN 0 - x.v ELSE x.v
                c == (a + 5) \div 10
            IN  (IF x.v < 0 THEN <<"-">> ELSE <<>>)
                \o NatText(c \div 100)
                \o <<".", Digits[((c \div 10) % 10) + 1], Digits[(c % 10) + 1]>>

\* Math.min(...xs): +Infinity for no argument, NaN if any argument is NaN.
RECURSIVE MathMin(_)
MathMin(xs) ==
    IF xs = <<>> THEN PosInf
    ELSE LET r == MathMin(Tail(xs))
         IN  IF isNaN(xs[1]) \/ isNaN(r) THEN NaN
             ELSE IF NumLess(xs[1], r) THEN xs[1] ELSE r

(***************************************************************************)
(* Optional properties.                                                    *)
(***************************************************************************)
Absent == [k |-> "absent"]
Undefined == [k |-> "undefined"]
Null == [k |-> "null"]
Str(s) == [k |-> "str", s |-> s]


(***************************************************************************)
(* Data model (types Store, Part, SavedBuild, lines 594-624).              *)
(***************************************************************************)
partTypes == <<"CPU", "GPU", "Motherboard", "RAM", "Storage", "PSU", "Case", "Cooling">>

\* The blank store listing of the form (lines 655-662, 715-722, 777-784).
BlankStore(id) ==
    [id |-> id, name |-> <<>>, url |-> <<>>, price |-> <<>>, inStock |-> FALSE,
     priceHistory |-> <<>>, priceAlert |-> Absent, tempPrice |-> Absent]

\* The initial / reset form; an undefined name and '' are both written <<>>
\* (the name is only read through its truthiness, line 759).
BlankForm(id) == [name |-> <<>>, type |-> partTypes[1], stores |-> <<BlankStore(id)>>]

\* Array.prototype.map over a sequence (filter is SelectSeq).
MapSeq(s, F(_)) == [i \in 1..Len(s) |-> F(s[i])]

(***************************************************************************)
(* Derivation engine (lines 858-872).                                      *)
(***************************************************************************)
\* Variant: the price of the first store instead of the least one.
getBestPrice_FirstStore(stores) ==
    <<"$">> \o toFixed2(IF stores = <<>> THEN PosInf
                        ELSE parseFloat(StripDollar(stores[1].price)))

getBestPrice(stores) ==
    LET prices == [i \in 1..Len(stores) |-> parseFloat(StripDollar(stores[i].price))]
    IN  <<"$">> \o toFixed2(MathMin(prices))

\* Variant: Array.prototype.every in the place of some.
getAvailabilityStatus_Every(stores) ==
    \A j \in 1..Len(stores) : stores[j].inStock

\* Array.prototype.some: left to right, stops at the first hit.
RECURSIVE getAvailabilityStatus(_)
getAvailabilityStatus(stores) ==
    IF stores = <<>> THEN FALSE
    ELSE IF stores[1].inStock THEN TRUE
    ELSE getAvailabilityStatus(Tail(stores))

\* Variant: the callback parses the best price with its currency sign.
RECURSIVE ReduceTotal_NoStrip(_, _)
ReduceTotal_NoStrip(ps, total) ==
    IF ps = <<>> THEN total
    ELSE LET bestPrice == parseFloat(getBestPrice(ps[1].stores))
         IN  ReduceTotal_NoStrip(Tail(ps), NumAdd(total, bestPrice))

\* Array.prototype.reduce from the left with the callback of lines 868-871.
RECURSIVE ReduceTotal(_, _)
ReduceTotal(ps, total) ==
    IF ps = <<>> THEN total
    ELSE LET bestPrice == parseFloat(StripDollar(getBestPrice(ps[1].stores)))
         IN  ReduceTotal(Tail(ps), NumAdd(total, bestPrice))

getTotalBuildCost == ReduceTotal(parts, Num(0))

(***************************************************************************)
(* The displayed list (lines 874-887): the parts of the selected type,     *)
(* sorted by Array.prototype.sort with the comparator of the sort key.     *)
(*                                                                         *)
(* String.prototype.localeCompare in the root collation, on the letters    *)
(* the names are made of: letters compare first without their case         *)
(* ("a" and "A" before "b" and "B"), a prefix before its extensions, and   *)
(* only then lower case before upper case.                                 *)
(***************************************************************************)
Primary(c) == CASE c \in {"a", "A"} -> 1
                [] c \in {"b", "B"} -> 2
                [] c \in {"N", "n"} -> 3
                [] OTHER -> 0

Tertiary(c) == IF c \in {"A", "B", "N"} THEN 1 ELSE 0

RECURSIVE SeqCompare(_, _)
SeqCompare(x, y) ==
    IF x = <<>> THEN (IF y = <<>> THEN 0 ELSE -1)
    ELSE IF y = <<>> THEN 1
    ELSE IF x[1] < y[1] THEN -1
    ELSE IF x[1] > y[1] THEN 1
    ELSE SeqCompare(Tail(x), Tail(y))

localeCompare(a, b) ==
    LET pa == [i \in 1..Len(a) |-> Primary(a[i])]
        pb == [i \in 1..Len(b) |-> Primary(b[i])]
        ta == [i \in 1..Len(a) |-> Tertiary(a[i])]
        tb == [i \in 1..Len(b) |-> Tertiary(b[i])]
    IN  IF SeqCompare(pa, pb) # 0 THEN SeqCompare(pa, pb) ELSE SeqCompare(ta, tb)

\* x - y on numbers: NaN when an operand is, or when both are the same infinity.
NumSub(x, y) ==
    IF isNaN(x) \/ isNaN(y) THEN NaN
    ELSE IF x.k = "num" /\ y.k = "num" THEN Num(x.v - y.v)
    ELSE IF x.k = y.k THEN NaN
    ELSE IF x.k = "inf" \/ y.k = "ninf" THEN PosInf
    ELSE NegInf

\* What the sort makes of the comparator's result: its sign, NaN as 0.
Sign(x) ==
    CASE x.k = "nan" -> 0
      [] x.k = "inf" -> 1
      [] x.k = "ninf" -> -1
      [] OTHER -> IF x.v < 0 THEN -1 ELSE IF x.v > 0 THEN 1 ELSE 0

\* Variant: the availability of the first operand decides.
compare_AvailabilityOfA(key, a, b) ==
    CASE key = "name" -> localeCompare(a.name, b.name)
      [] key = "price" ->
            Sign(NumSub(parseFloat(StripDollar(getBestPrice(a.stores))),
                        parseFloat(StripDollar(getBestPrice(b.stores)))))
      [] key = "availability" -> IF getAvailabilityStatus(a.stores) THEN 1 ELSE -1
      [] OTHER -> 0

\* Variant: the prices are subtracted the other way round.
compare_PriceDescending(key, a, b) ==
    CASE key = "name" -> localeCompare(a.name, b.name)
      [] key = "price" ->
            Sign(NumSub(parseFloat(StripDollar(getBestPrice(b.stores))),
                        parseFloat(StripDollar(getBestPrice(a.stores)))))
      [] key = "availability" -> IF getAvailabilityStatus(b.stores) THEN 1 ELSE -1
      [] OTHER -> 0

\* The comparator (lines 876-886), as the sign of what it returns.
compare(key, a, b) ==
    CASE key = "name" -> localeCompare(a.name, b.name)
      [] key = "price" ->
            Sign(NumSub(parseFloat(StripDollar(getBestPrice(a.stores))),
                        parseFloat(StripDollar(getBestPrice(b.stores)))))
      [] key = "availability" -> IF getAvailabilityStatus(b.stores) THEN 1 ELSE -1
      [] OTHER -> 0

(***************************************************************************)
(* Array.prototype.sort.  With a comparator that is not a consistent       *)
(* order (the one of "availability" looks at its second operand only) the  *)
(* result depends on the engine, so the sort is modelled as the engines    *)
(* do it, each calling the comparator on the operands and in the order its *)
(* algorithm does:                                                         *)
(*   "V8"             first run found and made ascending, then binary     *)
(*                    insertion (TimSort below its minimal run length);    *)
(*   "SpiderMonkey"   runs of three sorted by insertion, then merged      *)
(*                    pairwise, the left element taken when it is <= ;     *)
(*   "JavaScriptCore" single elements merged pairwise, the right element  *)
(*                    taken when it is < .                                 *)
(***************************************************************************)
Engines == {"V8", "SpiderMonkey", "JavaScriptCore"}

Reverse(s) == [i \in 1..Len(s) |-> s[Len(s) + 1 - i]]

\* V8, CountAndMakeRun: the last index of the run that starts at 1.
RECURSIVE RunEnd(_, _, _, _)
RunEnd(s, key, descending, idx) ==
    IF idx = Len(s) THEN idx
    ELSE LET order == compare(key, s[idx + 1], s[idx])
         IN  IF (descending /\ order >= 0) \/ (~descending /\ order < 0)
             THEN idx
             ELSE RunEnd(s, key, descending, idx + 1)

\* V8, BinaryInsertionSort: where the pivot goes in s[left+1 .. right].
RECURSIVE InsertionPoint(_, _, _, _, _)
InsertionPoint(s, key, pivot, left, right) ==
    IF left >= right THEN left
    ELSE LET mid == left + ((right - left) \div 2)
         IN  IF compare(key, pivot, s[mid + 1]) < 0
             THEN InsertionPoint(s, key, pivot, left, mid)
             ELSE InsertionPoint(s, key, pivot, mid + 1, right)

RECURSIVE BinaryInsertionSort(_, _, _)
BinaryInsertionSort(s, key, start) ==
    IF start > Len(s) THEN s
    ELSE LET pivot == s[start]
             left == InsertionPoint(s, key, pivot, 0, start - 1)
             placed == SubSeq(s, 1, left) \o <<pivot>> \o SubSeq(s, left + 1, start - 1)
                          \o SubSeq(s, start + 1, Len(s))
         IN  BinaryInsertionSort(placed, key, start + 1)

SortV8(s, key) ==
    IF Len(s) < 2 THEN s
    ELSE LET descending == compare(key, s[2], s[1]) < 0
             run == RunEnd(s, key, descending, 2)
             made == IF descending
                     THEN Reverse(SubSeq(s, 1, run)) \o SubSeq(s, run + 1, Len(s))
                     ELSE s
         IN  BinaryInsertionSort(made, key, run + 1)

\* SpiderMonkey: the element at j sinks while its left neighbour is greater.
RECURSIVE Sink(_, _, _)
Sink(s, key, j) ==
    IF j <= 1 THEN s
    ELSE IF compare(key, s[j - 1], s[j]) <= 0 THEN s
    ELSE Sink([s EXCEPT ![j - 1] = s[j], ![j] = s[j - 1]], key, j - 1)

RECURSIVE InsertionSort(_, _, _)
InsertionSort(s, key, i) ==
    IF i > Len(s) THEN s ELSE InsertionSort(Sink(s, key, i), key, i + 1)

RECURSIVE MergeLeftIfLessOrEqual(_, _, _)
MergeLeftIfLessOrEqual(a, b, key) ==
    IF a = <<>> THEN b
    ELSE IF b = <<>> THEN a
    ELSE IF compare(key, a[1], b[1]) <= 0
         THEN <<a[1]>> \o MergeLeftIfLessOrEqual(Tail(a), b, key)
         ELSE <<b[1]>> \o MergeLeftIfLessOrEqual(a, Tail(b), key)

\* MergeArrayRuns: runs that are in order already are only copied.
MergeArrayRuns(a, b, key) ==
    IF compare(key, a[Len(a)], b[1]) <= 0 THEN a \o b
    ELSE MergeLeftIfLessOrEqual(a, b, key)

\* JavaScriptCore, merge.
RECURSIVE MergeRightIfLess(_, _, _)
MergeRightIfLess(a, b, key) ==
    IF b = <<>> THEN a
    ELSE IF a = <<>> THEN b
    ELSE IF compare(key, b[1], a[1]) < 0
         THEN <<b[1]>> \o MergeRightIfLess(a, Tail(b), key)
         ELSE <<a[1]>> \o MergeRightIfLess(Tail(a), b, key)

\* s cut into runs of n elements (the last one may be shorter).
RECURSIVE Runs(_, _)
Runs(s, n) ==
    IF Len(s) <= n THEN (IF s = <<>> THEN <<>> ELSE <<s>>)
    ELSE <<SubSeq(s, 1, n)>> \o Runs(SubSeq(s, n + 1, Len(s)), n)

\* One pass of a bottom-up merge sort: neighbouring runs merged in pairs.
RECURSIVE MergePass(_, _, _)
MergePass(runs, key, engine) ==
    IF Len(runs) <= 1 THEN runs
    ELSE <<IF engine = "SpiderMonkey"
           THEN MergeArrayRuns(runs[1], runs[2], key)
           ELSE MergeRightIfLess(runs[1], runs[2], key)>>
         \o MergePass(SubSeq(runs, 3, Len(runs)), key, engine)

RECURSIVE MergePasses(_, _, _)
MergePasses(runs, key, engine) ==
    IF runs = <<>> THEN <<>>
    ELSE IF Len(runs) = 1 THEN runs[1]
    ELSE MergePasses(MergePass(runs, key, engine), key, engine)

SortSpiderMonkey(s, key) ==
    LET chunks == Runs(s, 3)
        sorted == [i \in 1..Len(chunks) |-> InsertionSort(chunks[i], key, 2)]
    IN  MergePasses(sorted, key, "SpiderMonkey")

SortJavaScriptCore(s, key) == MergePasses(Runs(s, 1), key, "JavaScriptCore")

ArraySort(s, key, engine) ==
    CASE engine = "V8" -> SortV8(s, key)
      [] engine = "SpiderMonkey" -> SortSpiderMonkey(s, key)
      [] engine = "JavaScriptCore" -> SortJavaScriptCore(s, key)

\* Variant: the type filter is left out.
filteredAndSortedParts_Unfiltered(engine) == ArraySort(parts, sortBy, engine)

filteredAndSortedParts(engine) ==
    LET OfType(part) == selectedType = "all" \/ part.type = selectedType
    IN  ArraySort(SelectSeq(parts, OfType), sortBy, engine)

(***************************************************************************)
(* Price history recorder (lines 743-755).                                 *)
(***************************************************************************)
\* Variant: every parseable price is appended, the last entry is not compared.
updatePriceHistory_AlwaysAppend(store, newPrice, currentDate) ==
    LET priceNum == parseFloat(StripDollar(newPrice))
        h == store.priceHistory
    IN  IF isNaN(priceNum) THEN h
        ELSE Append(h, [date |-> currentDate, price |-> priceNum])

\* Variant: a new entry takes the place of the last one.
updatePriceHistory_ReplaceLast(store, newPrice, currentDate) ==
    LET priceNum == parseFloat(StripDollar(newPrice))
        h == store.priceHistory
    IN  IF isNaN(priceNum) THEN h
        ELSE IF h = <<>> THEN <<[date |-> currentDate, price |-> priceNum]>>
        ELSE IF NumStrictNe(h[Len(h)].price, priceNum) \/ h[Len(h)].date # currentDate
             THEN [h EXCEPT ![Len(h)] = [date |-> currentDate, price |-> priceNum]]
             ELSE h

\* Variant: the price is not tested for NaN.
updatePriceHistory_NoNaNGuard(store, newPrice, currentDate) ==
    LET priceNum == parseFloat(StripDollar(newPrice))
        h == store.priceHistory
    IN  IF h = <<>>
           \/ NumStrictNe(h[Len(h)].price, priceNum)
           \/ h[Len(h)].date # currentDate
        THEN Append(h, [date |-> currentDate, price |-> priceNum])
        ELSE h

\* Variant: the first entry of the history is compared, not the last.
updatePriceHistory_CompareFirst(store, newPrice, currentDate) ==
    LET priceNum == parseFloat(StripDollar(newPrice))
        h == store.priceHistory
    IN  IF isNaN(priceNum) THEN h
        ELSE IF h = <<>>
                \/ NumStrictNe(h[1].price, priceNum)
                \/ h[1].date # currentDate
             THEN Append(h, [date |-> currentDate, price |-> priceNum])
             ELSE h

\* Variant: the last entry is compared with the price parsed with its sign.
updatePriceHistory_CompareUnstripped(store, newPrice, currentDate) ==
    LET priceNum == parseFloat(StripDollar(newPrice))
        h == store.priceHistory
    IN  IF isNaN(priceNum) THEN h
        ELSE IF h = <<>>
                \/ NumStrictNe(h[Len(h)].price, parseFloat(newPrice))
                \/ h[Len(h)].date # currentDate
             THEN Append(h, [date |-> currentDate, price |-> priceNum])
             ELSE h

updatePriceHistory(store, newPrice, currentDate) ==
    LET priceNum == parseFloat(StripDollar(newPrice))
        h == store.priceHistory
    IN  IF isNaN(priceNum) THEN h
        ELSE IF h = <<>>
                \/ NumStrictNe(h[Len(h)].price, priceNum)
                \/ h[Len(h)].date # currentDate
             THEN Append(h, [date |-> currentDate, price |-> priceNum])
             ELSE h

(***************************************************************************)
(* JSON.stringify followed by JSON.parse, on the values the program        *)
(* stores: a property whose value is undefined is dropped, a number that   *)
(* is NaN or infinite becomes null, everything else is kept.               *)
(***************************************************************************)
JSONNumber(x) == IF x.k \in {"nan", "inf", "ninf"} THEN Null ELSE x

JSONOptional(x) == IF x.k = "undefined" THEN Absent ELSE JSONNumber(x)

JSONEntry(e) == [date |-> e.date, price |-> JSONNumber(e.price)]

JSONStore(s) ==
    [s EXCEPT !.priceHistory = MapSeq(s.priceHistory, JSONEntry),
              !.priceAlert = JSONOptional(s.priceAlert),
              !.tempPrice = JSONOptional(s.tempPrice)]

JSONPart(p) == [p EXCEPT !.stores = MapSeq(p.stores, JSONStore)]

JSONBuild(b) == [b EXCEPT !.parts = MapSeq(b.parts, JSONPart)]

\* The stored item: the text of the list; its content is what parsing it gives.
JSONstringify(builds) == [k |-> "str", json |-> MapSeq(builds, JSONBuild)]

JSONparse(item) == item.json


(***************************************************************************)
(* Inputs of the handlers.                                                 *)
(***************************************************************************)
P_449 == <<"$", "4", "4", "9", ".", "9", "9">>
P_459 == <<"$", "4", "5", "9", ".", "9", "9">>
P_429 == <<"$", "4", "2", "9", ".", "9", "9">>
P_bad == <<"a", "b", "c">>

NameInputs == {<<>>, <<"A">>}
UrlInputs == {<<>>, <<"u">>}
PriceInputs == {<<>>, P_449, P_429, P_bad}
TempPriceInputs == {<<>>, P_429}
TypeInputs == {partTypes[1], partTypes[2]}
AlertInputs == {NaN, Num(400000)}
BuildNameInputs == {<<>>, <<" ">>, <<"b">>}
Ids == 0..MaxClock

(***************************************************************************)
(* What an earlier session may have left in localStorage: nothing, or      *)
(* builds saved by handleSaveBuild from catalogs entered through the form  *)
(* on day 0 (clock readings of the earlier session are negative).          *)
(***************************************************************************)
SeedStore(id, name, price, inStock) ==
    [id |-> id, name |-> name, url |-> <<"u">>, price |-> price,
     inStock |-> inStock,
     priceHistory |-> <<[date |-> 0, price |-> parseFloat(StripDollar(price))]>>,
     priceAlert |-> Absent, tempPrice |-> Absent]

SeedCPU ==
    [id |-> -5, name |-> <<"A">>, type |-> partTypes[1],
     stores |-> <<SeedStore(-7, <<"N">>, P_449, TRUE),
                  SeedStore(-6, <<"M">>, P_459, FALSE)>>,
     lastChecked |-> 0]

SeedGPU ==
    [id |-> -3, name |-> <<"B">>, type |-> partTypes[2],
     stores |-> <<SeedStore(-4, <<"N">>, P_429, FALSE)>>,
     lastChecked |-> 0]

SeedBuilds ==
    <<[id |-> -2, name |-> <<"b">>, date |-> 0, parts |-> <<SeedCPU>>],
      [id |-> -1, name |-> <<"c">>, date |-> 0, parts |-> <<SeedCPU, SeedGPU>>]>>

SeedStorages == {Null, JSONstringify(SeedBuilds)}

(***************************************************************************)
(* Initial state: the first render (useState initialisers, lines 638-663). *)
(***************************************************************************)
Init ==
    /\ selectedType = "all"
    /\ sortBy = "name"
    /\ parts = <<>>
    /\ newPart = BlankForm(0)
    /\ showAddForm = FALSE
    /\ showSaveDialog = FALSE
    /\ showLoadDialog = FALSE
    /\ buildName = <<>>
    /\ savedBuilds = <<>>
    /\ storage \in SeedStorages
    /\ now = 0
    /\ today = 0
    /\ phase = "mounted"
    /\ events = 0
    /\ last = [op |-> "mount"]

Ready == phase = "ready"

\* An event of the run, one of at most n; the mount effect is not counted.
Step(n, A) == events < n /\ events' = events + 1 /\ A

Effect(A) == A /\ UNCHANGED events

(***************************************************************************)
(* Time.                                                                   *)
(***************************************************************************)
Tick ==
    /\ now < MaxClock
    /\ now' = now + 1
    /\ last' = [op |-> "Tick"]
    /\ UNCHANGED <<selectedType, sortBy,
                   parts, newPart, showAddForm, showSaveDialog, showLoadDialog,
                   buildName, savedBuilds, storage, today, phase>>

NextDay ==
    /\ now < MaxClock
    /\ today < MaxDay
    /\ now' = now + 1
    /\ today' = today + 1
    /\ last' = [op |-> "NextDay"]
    /\ UNCHANGED <<selectedType, sortBy,
                   parts, newPart, showAddForm, showSaveDialog, showLoadDialog,
                   buildName, savedBuilds, storage, phase>>

(***************************************************************************)
(* Start-up effect (lines 665-670) and page reload.                        *)
(***************************************************************************)
LoadSavedBuilds ==
    /\ phase = "mounted"
    /\ savedBuilds' = IF storage # Null THEN JSONparse(storage) ELSE savedBuilds
    /\ phase' = "ready"
    /\ last' = [op |-> "LoadSavedBuilds"]
    /\ UNCHANGED <<selectedType, sortBy,
                   parts, newPart, showAddForm, showSaveDialog, showLoadDialog,
                   buildName, storage, now, today>>

Reload ==
    /\ Ready
    /\ parts' = <<>>
    /\ newPart' = BlankForm(now)
    /\ showAddForm' = FALSE
    /\ showSaveDialog' = FALSE
    /\ showLoadDialog' = FALSE
    /\ buildName' = <<>>
    /\ savedBuilds' = <<>>
    /\ phase' = "mounted"
    /\ selectedType' = "all"
    /\ sortBy' = "name"
    /\ last' = [op |-> "Reload", before |-> savedBuilds]
    /\ UNCHANGED <<storage, now, today>>

(***************************************************************************)
(* Dialogs and text inputs (inline handlers of the markup).                *)
(***************************************************************************)
SetShowAddForm(b) ==
    /\ Ready
    /\ showAddForm = ~b
    /\ showAddForm' = b
    /\ last' = [op |-> "setShowAddForm"]
    /\ UNCHANGED <<selectedType, sortBy,
                   parts, newPart, showSaveDialog, showLoadDialog, buildName,
                   savedBuilds, storage, now, today, phase>>

SetShowSaveDialog(b) ==
    /\ Ready
    /\ showSaveDialog = ~b
    /\ showSaveDialog' = b
    /\ last' = [op |-> "setShowSaveDialog"]
    /\ UNCHANGED <<selectedType, sortBy,
                   parts, newPart, showAddForm, showLoadDialog, buildName,
                   savedBuilds, storage, now, today, phase>>

SetShowLoadDialog(b) ==
    /\ Ready
    /\ showLoadDialog = ~b
    /\ showLoadDialog' = b
    /\ last' = [op |-> "setShowLoadDialog"]
    /\ UNCHANGED <<selectedType, sortBy,
                   parts, newPart, showAddForm, showSaveDialog, buildName,
                   savedBuilds, storage, now, today, phase>>

\* The selects of the filter panel (lines 962 and 977).
SetSelectedType(v) ==
    /\ Ready
    /\ selectedType' = v
    /\ last' = [op |-> "setSelectedType"]
    /\ UNCHANGED <<sortBy, parts, newPart, showAddForm, showSaveDialog, showLoadDialog,
                   buildName, savedBuilds, storage, now, today, phase>>

SetSortBy(v) ==
    /\ Ready
    /\ sortBy' = v
    /\ last' = [op |-> "setSortBy"]
    /\ UNCHANGED <<selectedType, parts, newPart, showAddForm, showSaveDialog,
                   showLoadDialog, buildName, savedBuilds, storage, now, today, phase>>

SetBuildName(v) ==
    /\ Ready
    /\ showSaveDialog
    /\ buildName' = v
    /\ last' = [op |-> "setBuildName"]
    /\ UNCHANGED <<selectedType, sortBy,
                   parts, newPart, showAddForm, showSaveDialog, showLoadDialog,
                   savedBuilds, storage, now, today, phase>>

(***************************************************************************)
(* Build persistence (lines 684-710).                                      *)
(***************************************************************************)
\* Variant: the snapshot misses the last part of the catalog.
NewBuild_WithoutLastPart(id, name, date, ps) ==
    [id |-> id, name |-> name, date |-> date,
     parts |-> IF ps = <<>> THEN ps ELSE SubSeq(ps, 1, Len(ps) - 1)]

\* The SavedBuild record of lines 687-692.
NewBuild(id, name, date, ps) == [id |-> id, name |-> name, date |-> date, parts |-> ps]

\* Variant: the new build is put at the head of the list.
handleSaveBuild_Prepend ==
    /\ Ready
    /\ showSaveDialog
    /\ last' = [op |-> "handleSaveBuild", saved |-> Trim(buildName) # <<>>,
                catalog |-> parts]
    /\ IF Trim(buildName) = <<>>
       THEN UNCHANGED <<savedBuilds, storage, buildName, showSaveDialog>>
       ELSE /\ Len(savedBuilds) < MaxBuilds
            /\ LET newBuild == NewBuild(now, buildName, today, parts)
                   updatedBuilds == <<newBuild>> \o savedBuilds
               IN  /\ savedBuilds' = updatedBuilds
                   /\ storage' = JSONstringify(updatedBuilds)
            /\ buildName' = <<>>
            /\ showSaveDialog' = FALSE
    /\ UNCHANGED <<selectedType, sortBy,
                   parts, newPart, showAddForm, showLoadDialog, now, today, phase>>

handleSaveBuild ==
    /\ Ready
    /\ showSaveDialog
    /\ last' = [op |-> "handleSaveBuild", saved |-> Trim(buildName) # <<>>,
                catalog |-> parts]
    /\ IF Trim(buildName) = <<>>
       THEN UNCHANGED <<savedBuilds, storage, buildName, showSaveDialog>>
       ELSE /\ Len(savedBuilds) < MaxBuilds
            /\ LET newBuild == NewBuild(now, buildName, today, parts)
                   updatedBuilds == Append(savedBuilds, newBuild)
               IN  /\ savedBuilds' = updatedBuilds
                   /\ storage' = JSONstringify(updatedBuilds)
            /\ buildName' = <<>>
            /\ showSaveDialog' = FALSE
    /\ UNCHANGED <<selectedType, sortBy,
                   parts, newPart, showAddForm, showLoadDialog, now, today, phase>>

\* Variant: the parts of the build are added to the catalog.
handleLoadBuild_Merge(build) ==
    /\ Ready
    /\ showLoadDialog
    /\ parts' = parts \o build.parts
    /\ showLoadDialog' = FALSE
    /\ last' = [op |-> "handleLoadBuild", build |-> build, replaced |-> parts,
                after |-> last.op]
    /\ UNCHANGED <<selectedType, sortBy,
                   newPart, showAddForm, showSaveDialog, buildName, savedBuilds,
                   storage, now, today, phase>>

handleLoadBuild(build) ==
    /\ Ready
    /\ showLoadDialog
    /\ parts' = build.parts
    /\ showLoadDialog' = FALSE
    /\ last' = [op |-> "handleLoadBuild", build |-> build, replaced |-> parts,
                after |-> last.op]
    /\ UNCHANGED <<selectedType, sortBy,
                   newPart, showAddForm, showSaveDialog, buildName, savedBuilds,
                   storage, now, today, phase>>

\* Variant: the build is removed from the list in memory only.
handleDeleteBuild_MemoryOnly(buildId) ==
    /\ Ready
    /\ showLoadDialog
    /\ LET Keep(build) == build.id # buildId
       IN  savedBuilds' = SelectSeq(savedBuilds, Keep)
    /\ last' = [op |-> "handleDeleteBuild", buildId |-> buildId]
    /\ UNCHANGED <<selectedType, sortBy,
                   parts, newPart, showAddForm, showSaveDialog, showLoadDialog,
                   buildName, storage, now, today, phase>>

handleDeleteBuild(buildId) ==
    /\ Ready
    /\ showLoadDialog
    /\ LET Keep(build) == build.id # buildId
           updatedBuilds == SelectSeq(savedBuilds, Keep)
       IN  /\ savedBuilds' = updatedBuilds
           /\ storage' = JSONstringify(updatedBuilds)
    /\ last' = [op |-> "handleDeleteBuild", buildId |-> buildId]
    /\ UNCHANGED <<selectedType, sortBy,
                   parts, newPart, showAddForm, showSaveDialog, showLoadDialog,
                   buildName, now, today, phase>>


(***************************************************************************)
(* The add-part form (lines 712-741, 757-787 and the inputs of the form).  *)
(***************************************************************************)
SetNewPartName(v) ==
    /\ Ready
    /\ showAddForm
    /\ newPart' = [newPart EXCEPT !.name = v]
    /\ last' = [op |-> "setNewPartName"]
    /\ UNCHANGED <<selectedType, sortBy,
                   parts, showAddForm, showSaveDialog, showLoadDialog, buildName,
                   savedBuilds, storage, now, today, phase>>

SetNewPartType(v) ==
    /\ Ready
    /\ showAddForm
    /\ newPart' = [newPart EXCEPT !.type = v]
    /\ last' = [op |-> "setNewPartType"]
    /\ UNCHANGED <<selectedType, sortBy,
                   parts, showAddForm, showSaveDialog, showLoadDialog, buildName,
                   savedBuilds, storage, now, today, phase>>

handleAddStore ==
    /\ Ready
    /\ showAddForm
    /\ Len(newPart.stores) < MaxStores
    /\ newPart' = [newPart EXCEPT !.stores = Append(@, BlankStore(now))]
    /\ last' = [op |-> "handleAddStore"]
    /\ UNCHANGED <<selectedType, sortBy,
                   parts, showAddForm, showSaveDialog, showLoadDialog, buildName,
                   savedBuilds, storage, now, today, phase>>

handleRemoveStore(storeId) ==
    /\ Ready
    /\ showAddForm
    /\ last' = [op |-> "handleRemoveStore", storeId |-> storeId]
    /\ IF Len(newPart.stores) <= 1
       THEN UNCHANGED newPart
       ELSE LET Keep(store) == store.id # storeId
            IN  newPart' = [newPart EXCEPT !.stores = SelectSeq(@, Keep)]
    /\ UNCHANGED <<selectedType, sortBy,
                   parts, showAddForm, showSaveDialog, showLoadDialog, buildName,
                   savedBuilds, storage, now, today, phase>>

\* { ...store, [field]: value }
SetField(store, field, value) ==
    CASE field = "name" -> [store EXCEPT !.name = value]
      [] field = "url" -> [store EXCEPT !.url = value]
      [] field = "price" -> [store EXCEPT !.price = value]
      [] field = "inStock" -> [store EXCEPT !.inStock = value]

handleStoreChange(storeId, field, value) ==
    /\ Ready
    /\ showAddForm
    /\ LET Change(store) == IF store.id = storeId
                            THEN SetField(store, field, value) ELSE store
       IN  newPart' = [newPart EXCEPT !.stores = MapSeq(@, Change)]
    /\ last' = [op |-> "handleStoreChange", storeId |-> storeId, field |-> field]
    /\ UNCHANGED <<selectedType, sortBy,
                   parts, showAddForm, showSaveDialog, showLoadDialog, buildName,
                   savedBuilds, storage, now, today, phase>>

\* Variant: only the name of the part is required.
FormValid_NameOnly == newPart.name # <<>>

FormValid ==
    /\ newPart.name # <<>>
    /\ \A i \in 1..Len(newPart.stores) :
          /\ newPart.stores[i].name # <<>>
          /\ newPart.stores[i].url # <<>>
          /\ newPart.stores[i].price # <<>>

\* Variant: the listings go into the part as the form holds them.
NewPart_FormStores(form, id, currentDate) ==
    [id |-> id, name |-> form.name, type |-> form.type,
     stores |-> form.stores, lastChecked |-> currentDate]

\* The part built from the form (lines 760-772).
NewPart(form, id, currentDate) ==
    LET WithHistory(store) ==
            [store EXCEPT !.priceHistory =
                             updatePriceHistory(store, store.price, currentDate)]
        storesWithHistory == MapSeq(form.stores, WithHistory)
    IN  [id |-> id, name |-> form.name, type |-> form.type,
         stores |-> storesWithHistory, lastChecked |-> currentDate]

\* Variant: the new part is put at the head of the catalog.
handleAddPart_Prepend(t) ==
    /\ Ready
    /\ showAddForm
    /\ t \in {now, now + 1} /\ t <= MaxClock
    /\ last' = [op |-> "handleAddPart", valid |-> FormValid]
    /\ IF FormValid
       THEN /\ Len(parts) < MaxParts
            /\ parts' = <<NewPart(newPart, now, today)>> \o parts
            /\ showAddForm' = FALSE
            /\ newPart' = BlankForm(t)
            /\ now' = t
       ELSE /\ t = now
            /\ UNCHANGED <<parts, showAddForm, newPart, now>>
    /\ UNCHANGED <<selectedType, sortBy,
                   showSaveDialog, showLoadDialog, buildName, savedBuilds,
                   storage, today, phase>>

\* The clock is read twice when a part is added (its id, line 769, and the
\* id of the blank listing of the reset form, line 778): t is the second
\* reading.
handleAddPart(t) ==
    /\ Ready
    /\ showAddForm
    /\ t \in {now, now + 1} /\ t <= MaxClock
    /\ last' = [op |-> "handleAddPart", valid |-> FormValid]
    /\ IF FormValid
       THEN /\ Len(parts) < MaxParts
            /\ parts' = Append(parts, NewPart(newPart, now, today))
            /\ showAddForm' = FALSE
            /\ newPart' = BlankForm(t)
            /\ now' = t
       ELSE /\ t = now
            /\ UNCHANGED <<parts, showAddForm, newPart, now>>
    /\ UNCHANGED <<selectedType, sortBy,
                   showSaveDialog, showLoadDialog, buildName, savedBuilds,
                   storage, today, phase>>

(***************************************************************************)
(* Catalog operations (lines 789-856, 889-902).                            *)
(***************************************************************************)
\* Variant: the part is removed from the saved builds too.
handleDeletePart_Cascade(id) ==
    /\ Ready
    /\ LET Keep(part) == part.id # id
           Without(build) == [build EXCEPT !.parts = SelectSeq(@, Keep)]
       IN  /\ parts' = SelectSeq(parts, Keep)
           /\ savedBuilds' = MapSeq(savedBuilds, Without)
    /\ last' = [op |-> "handleDeletePart", id |-> id]
    /\ UNCHANGED <<selectedType, sortBy,
                   newPart, showAddForm, showSaveDialog, showLoadDialog, buildName,
                   storage, now, today, phase>>

handleDeletePart(id) ==
    /\ Ready
    /\ LET Keep(part) == part.id # id
       IN  parts' = SelectSeq(parts, Keep)
    /\ last' = [op |-> "handleDeletePart", id |-> id]
    /\ UNCHANGED <<selectedType, sortBy,
                   newPart, showAddForm, showSaveDialog, showLoadDialog, buildName,
                   savedBuilds, storage, now, today, phase>>

\* parts.map(part => part.id === partId ? OnPart(part) : part)
MapPart(ps, partId, OnPart(_)) ==
    [i \in 1..Len(ps) |-> IF ps[i].id = partId THEN OnPart(ps[i]) ELSE ps[i]]

\* part.stores.map(store => store.id === storeId ? OnStore(store) : store)
MapStore(stores, storeId, OnStore(_)) ==
    [i \in 1..Len(stores) |->
        IF stores[i].id = storeId THEN OnStore(stores[i]) ELSE stores[i]]

\* Variant: what is typed is the price at once.
PriceInputChanged_SetsPrice(ps, partId, storeId, value) ==
    LET OnStore(store) == [store EXCEPT !.tempPrice = Str(value), !.price = value]
        OnPart(part) == [part EXCEPT !.stores = MapStore(@, storeId, OnStore)]
    IN  MapPart(ps, partId, OnPart)

PriceInputChanged(ps, partId, storeId, value) ==
    LET OnStore(store) == [store EXCEPT !.tempPrice = Str(value)]
        OnPart(part) == [part EXCEPT !.stores = MapStore(@, storeId, OnStore)]
    IN  MapPart(ps, partId, OnPart)

handlePriceInputChange(partId, storeId, value) ==
    /\ Ready
    /\ parts' = PriceInputChanged(parts, partId, storeId, value)
    /\ last' = [op |-> "handlePriceInputChange", partId |-> partId,
                storeId |-> storeId, value |-> value]
    /\ UNCHANGED <<selectedType, sortBy,
                   newPart, showAddForm, showSaveDialog, showLoadDialog, buildName,
                   savedBuilds, storage, now, today, phase>>

\* Variant: the date of the part is refreshed only when the price parses.
PriceUpdated_DateIfParsed(ps, partId, storeId, newPrice, currentDate) ==
    LET OnStore(store) ==
            [store EXCEPT !.price = newPrice,
                          !.tempPrice = Undefined,
                          !.priceHistory = updatePriceHistory(store, newPrice, currentDate)]
        OnPart(part) ==
            [part EXCEPT !.lastChecked =
                            IF isNaN(parseFloat(StripDollar(newPrice)))
                            THEN @ ELSE currentDate,
                         !.stores = MapStore(@, storeId, OnStore)]
    IN  MapPart(ps, partId, OnPart)

PriceUpdated(ps, partId, storeId, newPrice, currentDate) ==
    LET OnStore(store) ==
            [store EXCEPT !.price = newPrice,
                          !.tempPrice = Undefined,
                          !.priceHistory = updatePriceHistory(store, newPrice, currentDate)]
        OnPart(part) == [part EXCEPT !.lastChecked = currentDate,
                                     !.stores = MapStore(@, storeId, OnStore)]
    IN  MapPart(ps, partId, OnPart)

HistoryWithin(ps, n) ==
    \A i \in 1..Len(ps) : \A j \in 1..Len(ps[i].stores) :
        Len(ps[i].stores[j].priceHistory) <= n

\* Variant: the update is made in place, in the store objects that the
\* builds holding this very catalog share with it.
handlePriceUpdate_InPlace(partId, storeId, newPrice) ==
    /\ Ready
    /\ HistoryWithin(PriceUpdated(parts, partId, storeId, newPrice, today), MaxHist)
    /\ parts' = PriceUpdated(parts, partId, storeId, newPrice, today)
    /\ savedBuilds' = [i \in 1..Len(savedBuilds) |->
                          IF savedBuilds[i].parts = parts
                          THEN [savedBuilds[i] EXCEPT !.parts = parts']
                          ELSE savedBuilds[i]]
    /\ last' = [op |-> "handlePriceUpdate", partId |-> partId,
                storeId |-> storeId, newPrice |-> newPrice]
    /\ UNCHANGED <<selectedType, sortBy,
                   newPart, showAddForm, showSaveDialog, showLoadDialog, buildName,
                   storage, now, today, phase>>

handlePriceUpdate(partId, storeId, newPrice) ==
    /\ Ready
    /\ HistoryWithin(PriceUpdated(parts, partId, storeId, newPrice, today), MaxHist)
    /\ parts' = PriceUpdated(parts, partId, storeId, newPrice, today)
    /\ last' = [op |-> "handlePriceUpdate", partId |-> partId,
                storeId |-> storeId, newPrice |-> newPrice]
    /\ UNCHANGED <<selectedType, sortBy,
                   newPart, showAddForm, showSaveDialog, showLoadDialog, buildName,
                   savedBuilds, storage, now, today, phase>>

\* The value of the price input of a store's row (line 1058).
InputValue(store) == IF store.tempPrice.k = "str" THEN store.tempPrice.s ELSE store.price

Keys == {"Enter", "a"}

\* The key handler of the price input (lines 829-840).  On Enter it calls
\* handlePriceUpdate and then blurs the input, and the blur handler (line
\* 1060) calls handlePriceUpdate again with the value of the input, which
\* is the same text.  The second call works on the catalog `seen` by the
\* blur handler: that of the render the key was pressed in or, should the
\* first update have been rendered in between, the updated one.  The last
\* setParts of the event is the state after it.
handlePriceKeyDown(key, partId, storeId, value) ==
    /\ Ready
    /\ IF key = "Enter"
       THEN LET first == PriceUpdated(parts, partId, storeId, value, today)
            IN  \E seen \in {parts, first} :
                    /\ HistoryWithin(first, MaxHist)
                    /\ parts' = PriceUpdated(seen, partId, storeId, value, today)
       ELSE UNCHANGED parts
    /\ last' = [op |-> "handlePriceKeyDown", key |-> key, partId |-> partId,
                storeId |-> storeId, value |-> value]
    /\ UNCHANGED <<selectedType, sortBy,
                   newPart, showAddForm, showSaveDialog, showLoadDialog, buildName,
                   savedBuilds, storage, now, today, phase>>

\* Variant: the catalog itself is sorted, and then filtered.
Render_SortsCatalog(engine) ==
    /\ Ready
    /\ LET OfType(part) == selectedType = "all" \/ part.type = selectedType
           sorted == ArraySort(parts, sortBy, engine)
       IN  /\ parts' = sorted
           /\ last' = [op |-> "render", view |-> SelectSeq(sorted, OfType),
                       total |-> getTotalBuildCost]
    /\ UNCHANGED <<selectedType, sortBy,
                   newPart, showAddForm, showSaveDialog, showLoadDialog, buildName,
                   savedBuilds, storage, now, today, phase>>

\* A render of the page: the total (line 928 of the markup reads
\* getTotalBuildCost) and the rows of filteredAndSortedParts with their best
\* price and availability.  filter (line 875) returns a new array and sort
\* (line 876) orders that array in place; the array of the state is only
\* read, and nothing is set.
Render(engine) ==
    /\ Ready
    /\ LET filtered == LET OfType(part) == selectedType = "all" \/ part.type = selectedType
                       IN  SelectSeq(parts, OfType)
           sorted == ArraySort(filtered, sortBy, engine)
       IN  /\ parts' = parts
           /\ last' = [op |-> "render", view |-> sorted, total |-> getTotalBuildCost]
    /\ UNCHANGED <<selectedType, sortBy,
                   newPart, showAddForm, showSaveDialog, showLoadDialog, buildName,
                   savedBuilds, storage, now, today, phase>>

\* Variant: every store of the part is toggled.
StockToggled_AllStores(ps, partId, storeId, currentDate) ==
    LET OnStore(store) == [store EXCEPT !.inStock = ~store.inStock]
        OnPart(part) == [part EXCEPT !.lastChecked = currentDate,
                                     !.stores = MapSeq(part.stores, OnStore)]
    IN  MapPart(ps, partId, OnPart)

StockToggled(ps, partId, storeId, currentDate) ==
    LET OnStore(store) == [store EXCEPT !.inStock = ~store.inStock]
        OnPart(part) == [part EXCEPT !.lastChecked = currentDate,
                                     !.stores = MapStore(@, storeId, OnStore)]
    IN  MapPart(ps, partId, OnPart)

toggleStock(partId, storeId) ==
    /\ Ready
    /\ parts' = StockToggled(parts, partId, storeId, today)
    /\ last' = [op |-> "toggleStock", partId |-> partId, storeId |-> storeId]
    /\ UNCHANGED <<selectedType, sortBy,
                   newPart, showAddForm, showSaveDialog, showLoadDialog, buildName,
                   savedBuilds, storage, now, today, phase>>

\* Variant: setting an alert refreshes the date of the part, as a toggle does.
PriceAlertSet_TouchDate(ps, partId, storeId, price) ==
    LET OnStore(store) == [store EXCEPT !.priceAlert = price]
        OnPart(part) == [part EXCEPT !.lastChecked = today,
                                     !.stores = MapStore(@, storeId, OnStore)]
    IN  MapPart(ps, partId, OnPart)

PriceAlertSet(ps, partId, storeId, price) ==
    LET OnStore(store) == [store EXCEPT !.priceAlert = price]
        OnPart(part) == [part EXCEPT !.stores = MapStore(@, storeId, OnStore)]
    IN  MapPart(ps, partId, OnPart)

setPriceAlert(partId, storeId, price) ==
    /\ Ready
    /\ parts' = PriceAlertSet(parts, partId, storeId, price)
    /\ last' = [op |-> "setPriceAlert", partId |-> partId, storeId |-> storeId]
    /\ UNCHANGED <<selectedType, sortBy,
                   newPart, showAddForm, showSaveDialog, showLoadDialog, buildName,
                   savedBuilds, storage, now, today, phase>>

(***************************************************************************)
(* The program: any event, with ids taken from what is on screen.          *)
(***************************************************************************)
PartIds == {parts[i].id : i \in 1..Len(parts)}
StoreIdsOf(partId) ==
    UNION {{parts[i].stores[j].id : j \in 1..Len(parts[i].stores)} :
             i \in {k \in 1..Len(parts) : parts[k].id = partId}}
FormStoreIds == {newPart.stores[i].id : i \in 1..Len(newPart.stores)}

Next ==
    \/ Step(MaxEvents, Tick)
    \/ Step(MaxEvents, NextDay)
    \/ Effect(LoadSavedBuilds)
    \/ Step(MaxEvents, Reload)
    \/ \E b \in BOOLEAN : Step(MaxEvents, SetShowAddForm(b))
    \/ \E b \in BOOLEAN : Step(MaxEvents, SetShowSaveDialog(b))
    \/ \E b \in BOOLEAN : Step(MaxEvents, SetShowLoadDialog(b))
    \/ \E v \in BuildNameInputs : Step(MaxEvents, SetBuildName(v))
    \/ Step(MaxEvents, handleSaveBuild)
    \/ \E i \in 1..Len(savedBuilds) : Step(MaxEvents, handleLoadBuild(savedBuilds[i]))
    \/ \E i \in 1..Len(savedBuilds) : Step(MaxEvents, handleDeleteBuild(savedBuilds[i].id))
    \/ \E v \in NameInputs : Step(MaxEvents, SetNewPartName(v))
    \/ \E v \in TypeInputs : Step(MaxEvents, SetNewPartType(v))
    \/ Step(MaxEvents, handleAddStore)
    \/ \E id \in FormStoreIds : Step(MaxEvents, handleRemoveStore(id))
    \/ \E id \in FormStoreIds : \E v \in NameInputs :
          Step(MaxEvents, handleStoreChange(id, "name", v))
    \/ \E id \in FormStoreIds : \E v \in UrlInputs :
          Step(MaxEvents, handleStoreChange(id, "url", v))
    \/ \E id \in FormStoreIds : \E v \in PriceInputs :
          Step(MaxEvents, handleStoreChange(id, "price", v))
    \/ \E id \in FormStoreIds : \E v \in BOOLEAN :
          Step(MaxEvents, handleStoreChange(id, "inStock", v))
    \/ \E t \in Ids : Step(MaxEvents, handleAddPart(t))
    \/ \E id \in PartIds : Step(MaxEvents, handleDeletePart(id))
    \/ \E p \in PartIds : \E st \in StoreIdsOf(p) : \E v \in TempPriceInputs :
          Step(MaxEvents, handlePriceInputChange(p, st, v))
    \/ \E p \in PartIds : \E st \in StoreIdsOf(p) : \E v \in PriceInputs :
          Step(MaxEvents, handlePriceUpdate(p, st, v))
    \/ \E p \in PartIds : \E st \in StoreIdsOf(p) : Step(MaxEvents, toggleStock(p, st))
    \/ \E p \in PartIds : \E st \in StoreIdsOf(p) : \E a \in AlertInputs :
          Step(MaxEvents, setPriceAlert(p, st, a))

Spec == Init /\ [][Next]_vars

(***************************************************************************)
(* The same program with the add-part form left alone: the saved builds,   *)
(* the catalog operations on loaded parts, and page reloads, over longer   *)
(* runs.  handleDeletePart is also called with an id that no part of the   *)
(* catalog has.                                                            *)
(***************************************************************************)
NextBuilds ==
    \/ Step(MaxBuildEvents, Tick)
    \/ Effect(LoadSavedBuilds)
    \/ Step(MaxBuildEvents, Reload)
    \/ \E b \in BOOLEAN : Step(MaxBuildEvents, SetShowSaveDialog(b))
    \/ \E b \in BOOLEAN : Step(MaxBuildEvents, SetShowLoadDialog(b))
    \/ \E v \in BuildNameInputs : Step(MaxBuildEvents, SetBuildName(v))
    \/ Step(MaxBuildEvents, handleSaveBuild)
    \/ \E i \in 1..Len(savedBuilds) :
          Step(MaxBuildEvents, handleLoadBuild(savedBuilds[i]))
    \/ \E i \in 1..Len(savedBuilds) :
          Step(MaxBuildEvents, handleDeleteBuild(savedBuilds[i].id))
    \/ \E id \in PartIds : Step(MaxBuildEvents, handleDeletePart(id))
    \/ \E id \in {0} \ PartIds : Step(MaxBuildEvents, handleDeletePart(id))
    \/ \E p \in PartIds : \E st \in StoreIdsOf(p) :
          Step(MaxBuildEvents, handlePriceUpdate(p, st, P_429))
    \/ \E p \in PartIds : \E st \in StoreIdsOf(p) :
          Step(MaxBuildEvents, toggleStock(p, st))
    \/ \E p \in PartIds : \E st \in StoreIdsOf(p) :
          Step(MaxBuildEvents, setPriceAlert(p, st, NaN))

SpecBuilds == Init /\ [][NextBuilds]_vars


(***************************************************************************)
(* The derived values over price texts of every shape.  The run starts    *)
(* right after a part was added through the form (one or two listings, or  *)
(* two parts of one listing each); prices are then updated, stock toggled  *)
(* and parts deleted.                                                      *)
(***************************************************************************)
R_plain == <<"4", "2", "9", ".", "9", "9">>
R_round == <<"$", "4", ".", "4", "9", "9">>
R_neg == <<"-", "5">>
R_tail == <<"$", "7", "x">>
R_inner == <<"4", "$", "5">>
R_space == <<" ", "$", "9">>
R_twice == <<"$", "$", "5">>

RichPrices == {P_449, P_459, R_plain, R_round, R_neg, R_tail, R_inner, R_space,
               R_twice, P_bad}

FilledStore(id, price, inStock) ==
    [BlankStore(id) EXCEPT !.name = <<"N">>, !.url = <<"u">>,
                           !.price = price, !.inStock = inStock]

FilledForm(name, stores) == [name |-> name, type |-> partTypes[1], stores |-> stores]

DeriveCatalogs ==
    {<<NewPart(FilledForm(<<"A">>, <<FilledStore(0, p, b)>>), 1, 0)>> :
        p \in RichPrices, b \in BOOLEAN}
    \cup
    {<<NewPart(FilledForm(<<"A">>, <<FilledStore(0, p, b), FilledStore(1, q, c)>>), 1, 0)>> :
        p \in RichPrices, q \in RichPrices, b \in BOOLEAN, c \in {FALSE}}
    \cup
    {<<NewPart(FilledForm(<<"A">>, <<FilledStore(0, p, FALSE)>>), 0, 0),
       NewPart(FilledForm(<<"B">>, <<FilledStore(0, q, TRUE)>>), 1, 0)>> :
        p \in RichPrices, q \in RichPrices}

InitDerive ==
    /\ selectedType = "all"
    /\ sortBy = "name"
    /\ parts \in DeriveCatalogs
    /\ newPart = BlankForm(1)
    /\ showAddForm = FALSE
    /\ showSaveDialog = FALSE
    /\ showLoadDialog = FALSE
    /\ buildName = <<>>
    /\ savedBuilds = <<>>
    /\ storage = Null
    /\ now = 1
    /\ today = 0
    /\ phase = "ready"
    /\ events = 0
    /\ last = [op |-> "handleAddPart", valid |-> TRUE]

NextDerive ==
    \/ Step(MaxDeriveEvents, NextDay)
    \/ \E id \in PartIds : Step(MaxDeriveEvents, handleDeletePart(id))
    \/ \E p \in PartIds : \E st \in StoreIdsOf(p) : \E v \in RichPrices :
          Step(MaxDeriveEvents, handlePriceUpdate(p, st, v))
    \/ \E p \in PartIds : \E st \in StoreIdsOf(p) :
          Step(MaxDeriveEvents, toggleStock(p, st))

SpecDerive == InitDerive /\ [][NextDerive]_vars

(***************************************************************************)
(* The add-part form at work on a catalog that already has a part.  The    *)
(* run starts right after that part was added through the form, at clock   *)
(* reading 0 or 1; the form is then filled in again and submitted, parts   *)
(* are deleted, and the clock may or may not have moved in between.        *)
(***************************************************************************)
FormCatalogs ==
    {<<NewPart(FilledForm(<<"A">>, <<FilledStore(0, p, b)>>), id, 0)>> :
        p \in {P_449, P_bad}, b \in BOOLEAN, id \in 0..1}

InitForm ==
    /\ selectedType = "all"
    /\ sortBy = "name"
    /\ parts \in FormCatalogs
    /\ now \in parts[1].id..1
    /\ newPart = BlankForm(now)
    /\ showAddForm = FALSE
    /\ showSaveDialog = FALSE
    /\ showLoadDialog = FALSE
    /\ buildName = <<>>
    /\ savedBuilds = <<>>
    /\ storage = Null
    /\ today = 0
    /\ phase = "ready"
    /\ events = 0
    /\ last = [op |-> "handleAddPart", valid |-> TRUE]

NextForm ==
    \/ Step(MaxFormEvents, Tick)
    \/ \E b \in BOOLEAN : Step(MaxFormEvents, SetShowAddForm(b))
    \/ \E v \in NameInputs : Step(MaxFormEvents, SetNewPartName(v))
    \/ Step(MaxFormEvents, handleAddStore)
    \/ \E id \in FormStoreIds : Step(MaxFormEvents, handleRemoveStore(id))
    \/ \E id \in FormStoreIds : \E v \in NameInputs :
          Step(MaxFormEvents, handleStoreChange(id, "name", v))
    \/ \E id \in FormStoreIds : \E v \in UrlInputs :
          Step(MaxFormEvents, handleStoreChange(id, "url", v))
    \/ \E id \in FormStoreIds : \E v \in {<<>>, P_429} :
          Step(MaxFormEvents, handleStoreChange(id, "price", v))
    \/ \E t \in Ids : Step(MaxFormEvents, handleAddPart(t))
    \/ \E id \in PartIds : Step(MaxFormEvents, handleDeletePart(id))

SpecForm == InitForm /\ [][NextForm]_vars

(***************************************************************************)
(* The displayed list.  The run starts right after a build of an earlier   *)
(* session was loaded: up to four parts of one listing each, of two types, *)
(* in or out of stock, at three prices; the type filter and the sort key   *)
(* are then set, stock toggled, parts deleted and the page rendered.       *)
(***************************************************************************)
ViewNames == <<<<"B">>, <<"a">>, <<"A">>, <<"a", "b">>>>
ViewTypes == {partTypes[1], partTypes[2]}
ViewPrices == {P_429, P_449, P_459}
SortKeys == {"name", "price", "availability"}
TypeFilters == {"all"} \cup ViewTypes

ViewPart(i, type, price, inStock) ==
    [NewPart(FilledForm(ViewNames[1 + ((i - 1) % Len(ViewNames))],
                        <<FilledStore(i - 20, price, inStock)>>), i - 10, 0)
        EXCEPT !.type = type]

\* The first part is of either type, the next ones alternate.
ViewCatalogs ==
    UNION {{[i \in 1..n |-> ViewPart(i, IF i = 1 THEN t ELSE partTypes[1 + (i % 2)],
                                     p[i], a[i])] :
               t \in ViewTypes, p \in [1..n -> ViewPrices], a \in [1..n -> BOOLEAN]} :
           n \in 0..MaxViewParts}

InitView ==
    /\ selectedType = "all"
    /\ sortBy = "name"
    /\ parts \in ViewCatalogs
    /\ savedBuilds = <<NewBuild(-1, <<"b">>, 0, parts)>>
    /\ storage = JSONstringify(savedBuilds)
    /\ last = [op |-> "handleLoadBuild", build |-> savedBuilds[1],
               replaced |-> <<>>, after |-> "setShowLoadDialog"]
    /\ newPart = BlankForm(0)
    /\ showAddForm = FALSE
    /\ showSaveDialog = FALSE
    /\ showLoadDialog = FALSE
    /\ buildName = <<>>
    /\ now = 0
    /\ today = 0
    /\ phase = "ready"
    /\ events = 0

NextView ==
    \/ \E v \in TypeFilters : Step(MaxViewEvents, SetSelectedType(v))
    \/ \E v \in SortKeys : Step(MaxViewEvents, SetSortBy(v))
    \/ \E p \in PartIds : \E st \in StoreIdsOf(p) : Step(MaxViewEvents, toggleStock(p, st))
    \/ \E id \in PartIds : Step(MaxViewEvents, handleDeletePart(id))
    \/ \E engine \in Engines : Step(MaxViewEvents, Render(engine))

SpecView == InitView /\ [][NextView]_vars

(***************************************************************************)
(* Submitting the form and editing prices.  The run starts with the form   *)
(* open and filled in: the part named, of either type, with one listing or *)
(* with two (the second one added at clock reading 1), their prices        *)
(* parseable, unparseable or still empty; the catalog is empty or holds    *)
(* the part that was added at clock reading 0.  The form is then           *)
(* submitted, prices are typed into the rows of the catalog and committed  *)
(* by leaving the input or by a key, and parts are deleted.                *)
(***************************************************************************)
EditListings ==
    {<<FilledStore(0, p, b)>> : p \in PriceInputs, b \in BOOLEAN}
    \cup
    {<<FilledStore(0, p, FALSE), FilledStore(1, q, TRUE)>> :
        p \in PriceInputs, q \in {P_429, P_bad}}

EditForms ==
    {[name |-> <<"A">>, type |-> t, stores |-> ss] :
        t \in TypeInputs, ss \in EditListings}

EditCatalogs ==
    {<<>>, <<NewPart(FilledForm(<<"B">>, <<FilledStore(0, P_449, TRUE)>>), 0, 0)>>}

InitEdit ==
    /\ selectedType = "all"
    /\ sortBy = "name"
    /\ parts \in EditCatalogs
    /\ newPart \in EditForms
    /\ showAddForm = TRUE
    /\ showSaveDialog = FALSE
    /\ showLoadDialog = FALSE
    /\ buildName = <<>>
    /\ savedBuilds = <<>>
    /\ storage = Null
    /\ now = 1
    /\ today = 0
    /\ phase = "ready"
    /\ events = 0
    /\ last = [op |-> "handleStoreChange", storeId |-> 0, field |-> "price"]

NextEdit ==
    \/ Step(MaxEditEvents, NextDay)
    \/ \E t \in Ids : Step(MaxEditEvents, handleAddPart(t))
    \/ \E id \in PartIds : Step(MaxEditEvents, handleDeletePart(id))
    \/ \E p \in PartIds : \E st \in StoreIdsOf(p) : \E v \in TempPriceInputs :
          Step(MaxEditEvents, handlePriceInputChange(p, st, v))
    \/ \E p \in PartIds : \E st \in StoreIdsOf(p) : \E v \in PriceInputs :
          Step(MaxEditEvents, handlePriceUpdate(p, st, v))
    \/ \E i \in 1..Len(parts) : \E j \in 1..Len(parts[i].stores) : \E key \in Keys :
          Step(MaxEditEvents,
               handlePriceKeyDown(key, parts[i].id, parts[i].stores[j].id,
                                  InputValue(parts[i].stores[j])))

SpecEdit == InitEdit /\ [][NextEdit]_vars

(***************************************************************************)
(* Price histories from an empty start: no stored builds, an empty         *)
(* catalog, and the form open and filled in with one listing.  The part is *)
(* added, its price updated over the days, builds are saved and loaded.    *)
(***************************************************************************)
HistoryPrices == {P_449, P_429, P_bad, T_Infinity}

InitHistory ==
    /\ selectedType = "all"
    /\ sortBy = "name"
    /\ parts = <<>>
    /\ newPart \in {[name |-> <<"A">>, type |-> partTypes[1],
                     stores |-> <<FilledStore(0, p, FALSE)>>] : p \in HistoryPrices}
    /\ showAddForm = TRUE
    /\ showSaveDialog = FALSE
    /\ showLoadDialog = FALSE
    /\ buildName = <<>>
    /\ savedBuilds = <<>>
    /\ storage = Null
    /\ now = 0
    /\ today = 0
    /\ phase = "ready"
    /\ events = 0
    /\ last = [op |-> "handleStoreChange", storeId |-> 0, field |-> "price"]

NextHistory ==
    \/ Step(MaxHistoryEvents, NextDay)
    \/ \E t \in Ids : Step(MaxHistoryEvents, handleAddPart(t))
    \/ \E p \in PartIds : \E st \in StoreIdsOf(p) : \E v \in HistoryPrices :
          Step(MaxHistoryEvents, handlePriceUpdate(p, st, v))
    \/ \E b \in BOOLEAN : Step(MaxHistoryEvents, SetShowSaveDialog(b))
    \/ Step(MaxHistoryEvents, SetBuildName(<<"b">>))
    \/ Step(MaxHistoryEvents, handleSaveBuild)
    \/ \E b \in BOOLEAN : Step(MaxHistoryEvents, SetShowLoadDialog(b))
    \/ \E i \in 1..Len(savedBuilds) :
          Step(MaxHistoryEvents, handleLoadBuild(savedBuilds[i]))

SpecHistory == InitHistory /\ [][NextHistory]_vars

(***************************************************************************)
(* Vocabulary of the claims.                                               *)
(***************************************************************************)
ParsedPrice(store) == parseFloat(StripDollar(store.price))

AllParse(stores) == \A j \in 1..Len(stores) : ParsedPrice(stores[j]).k = "num"

\* m is the least of the parsed prices of the stores.
IsLeastPrice(m, stores) ==
    /\ \E j \in 1..Len(stores) : ParsedPrice(stores[j]) = m
    /\ \A j \in 1..Len(stores) : m.v <= ParsedPrice(stores[j]).v

\* t is an optional sign, one or more digits, a point and two digits.
TwoDecimalText(t) ==
    LET u == IF t # <<>> /\ t[1] = "-" THEN Tail(t) ELSE t
        n == Len(u)
    IN  /\ n >= 4
        /\ u[n - 2] = "."
        /\ \A i \in (1..n) \ {n - 2} : IsDigit(u[i])

Distance(a, b) == IF a >= b THEN a - b ELSE b - a

\* The numeric value of a part's best price, as getTotalBuildCost reads it.
BestValue(part) == parseFloat(StripDollar(getBestPrice(part.stores)))

RECURSIVE SumOfBest(_, _)
SumOfBest(ps, n) == IF n = 0 THEN 0 ELSE BestValue(ps[n]).v + SumOfBest(ps, n - 1)

LastIs(op) == last.op = op

(***************************************************************************)
(* C1.  For every part of the catalog with at least one store whose prices *)
(* all parse, getBestPrice is '$' followed by a two-decimal text whose     *)
(* value is the least parsed store price rounded to the hundredth.         *)
(***************************************************************************)
C1_BestPriceIsMinimum ==
    \A i \in 1..Len(parts) :
        LET stores == parts[i].stores
            r == getBestPrice(stores)
        IN  (Len(stores) >= 1 /\ AllParse(stores)) =>
                /\ r[1] = "$"
                /\ TwoDecimalText(Tail(r))
                /\ \E j \in 1..Len(stores) :
                      /\ IsLeastPrice(ParsedPrice(stores[j]), stores)
                      /\ parseFloat(Tail(r)).k = "num"
                      /\ Distance(parseFloat(Tail(r)).v, ParsedPrice(stores[j]).v) <= 5

\* A price update has made the second store of a part the cheaper one.
C1_Witness ==
    /\ LastIs("handlePriceUpdate")
    /\ \E i \in 1..Len(parts) :
          /\ Len(parts[i].stores) = 2
          /\ AllParse(parts[i].stores)
          /\ ParsedPrice(parts[i].stores[2]).v < ParsedPrice(parts[i].stores[1]).v
          /\ getBestPrice(parts[i].stores) = parts[i].stores[2].price

(***************************************************************************)
(* C2.  A part is available exactly when at least one of its stores is in  *)
(* stock, in every state, whatever stock toggles came before.              *)
(***************************************************************************)
C2_AvailableIffSomeInStock ==
    \A i \in 1..Len(parts) :
        getAvailabilityStatus(parts[i].stores)
            <=> \E j \in 1..Len(parts[i].stores) : parts[i].stores[j].inStock

\* After a toggle: a part with two stores, none in stock, is not available,
\* and another state has a part whose only in-stock store is the second.
C2_Witness ==
    /\ LastIs("toggleStock")
    /\ \E i \in 1..Len(parts) :
          /\ Len(parts[i].stores) = 2
          /\ ~parts[i].stores[1].inStock
          /\ ~parts[i].stores[2].inStock
          /\ ~getAvailabilityStatus(parts[i].stores)

(***************************************************************************)
(* C3.  getTotalBuildCost is the sum of the best prices of the parts of    *)
(* the current catalog: 0 for the empty catalog, NaN as soon as one best   *)
(* price is NaN; for the catalog of the example (stores at $449.99 and     *)
(* $459.99) it is 449.99.                                                  *)
(***************************************************************************)
C3_TotalIsSumOfBest ==
    /\ (parts = <<>>) => getTotalBuildCost = Num(0)
    /\ (\A i \in 1..Len(parts) : BestValue(parts[i]).k = "num")
          => getTotalBuildCost = Num(SumOfBest(parts, Len(parts)))
    /\ (\E i \in 1..Len(parts) : BestValue(parts[i]).k = "nan")
          => getTotalBuildCost = NaN
    /\ (parts = <<SeedCPU>>) =>
          /\ getBestPrice(parts[1].stores) = P_449
          /\ getAvailabilityStatus(parts[1].stores)
          /\ getTotalBuildCost = Num(449990)

\* Two parts, and a price update has just changed the total.
C3_Witness ==
    /\ LastIs("handlePriceUpdate")
    /\ Len(parts) = 2
    /\ getTotalBuildCost.k = "num"
    /\ getTotalBuildCost # Num(449990 + 429990)
    /\ BestValue(parts[1]).v > 0 /\ BestValue(parts[2]).v > 0


(***************************************************************************)
(* More vocabulary: the stores an event with a part id and a store id is   *)
(* aimed at, and catalogs of the same shape.                               *)
(***************************************************************************)
SameShape(ps, qs) ==
    /\ Len(ps) = Len(qs)
    /\ \A i \in 1..Len(ps) : Len(ps[i].stores) = Len(qs[i].stores)

Targeted(ps, partId, storeId) ==
    {ij \in (1..Len(ps)) \X (1..MaxStores + 1) :
        /\ ij[2] <= Len(ps[ij[1]].stores)
        /\ ps[ij[1]].id = partId
        /\ ps[ij[1]].stores[ij[2]].id = storeId}

HistoryAt(ps, ij) == ps[ij[1]].stores[ij[2]].priceHistory

(***************************************************************************)
(* C4.  A price update with a parseable price leaves the history of the    *)
(* targeted store as it is when its last entry already is (current date,   *)
(* parsed price), and otherwise (other price, other date, empty history)   *)
(* appends exactly that one entry at the end.                              *)
(***************************************************************************)
C4_PriceUpdateHistoryRule ==
    [][last'.op = "handlePriceUpdate" =>
         LET n == parseFloat(StripDollar(last'.newPrice))
             e == [date |-> today, price |-> n]
         IN  n.k = "num" =>
               /\ SameShape(parts, parts')
               /\ \A ij \in Targeted(parts, last'.partId, last'.storeId) :
                     LET h == HistoryAt(parts, ij)
                     IN  IF h # <<>> /\ h[Len(h)] = e
                         THEN HistoryAt(parts', ij) = h
                         ELSE HistoryAt(parts', ij) = Append(h, e)]_vars

\* The example: last entry (day 0, 449.99), update to $429.99 on day 1.
C4_Witness ==
    /\ LastIs("handlePriceUpdate")
    /\ last.newPrice = P_429
    /\ today = 1
    /\ \E ij \in Targeted(parts, last.partId, last.storeId) :
          /\ HistoryAt(parts, ij) = <<[date |-> 0, price |-> Num(449990)],
                                      [date |-> 1, price |-> Num(429990)]>>
          /\ parts[ij[1]].stores[ij[2]].price = P_429

(***************************************************************************)
(* C5 as stated: across every operation, a store that is in the catalog    *)
(* before and after (same part id, same store id) keeps its history as a   *)
(* prefix of the new one.                                                  *)
(***************************************************************************)
C5_AppendOnlyEveryOperation ==
    [][\A i \in 1..Len(parts) : \A k \in 1..Len(parts') :
          \A j \in 1..Len(parts[i].stores) : \A l \in 1..Len(parts'[k].stores) :
              (parts[i].id = parts'[k].id
                  /\ parts[i].stores[j].id = parts'[k].stores[l].id)
              => IsPrefix(parts[i].stores[j].priceHistory,
                          parts'[k].stores[l].priceHistory)]_vars

(***************************************************************************)
(* C5, amended.  Every operation other than loading a build keeps the      *)
(* history of every store that stays in the catalog as a prefix of its new *)
(* history: deleting a part (and reloading the page) only removes parts    *)
(* and leaves the others as they were; every other operation keeps each    *)
(* part and store in its place.                                            *)
(***************************************************************************)
C5_AppendOnlyExceptLoad ==
    [][CASE last'.op = "handleLoadBuild" -> TRUE
         [] last'.op \in {"handleDeletePart", "Reload"} ->
               \A k \in 1..Len(parts') : \E i \in 1..Len(parts) : parts'[k] = parts[i]
         [] OTHER ->
               /\ Len(parts') >= Len(parts)
               /\ \A i \in 1..Len(parts) :
                     /\ Len(parts'[i].stores) = Len(parts[i].stores)
                     /\ \A j \in 1..Len(parts[i].stores) :
                           IsPrefix(parts[i].stores[j].priceHistory,
                                    parts'[i].stores[j].priceHistory)]_vars

\* A price update on a later day has grown a history to two entries.
C5_Witness ==
    /\ LastIs("handlePriceUpdate")
    /\ \E i \in 1..Len(parts) : \E j \in 1..Len(parts[i].stores) :
          /\ Len(parts[i].stores[j].priceHistory) = 2
          /\ parts[i].stores[j].priceHistory[1].date
                 < parts[i].stores[j].priceHistory[2].date

(***************************************************************************)
(* C6.  A price update whose text does not parse leaves the history of the *)
(* targeted store unchanged and still sets its price to the text.          *)
(***************************************************************************)
C6_UnparseableKeepsHistory ==
    [][(last'.op = "handlePriceUpdate"
          /\ isNaN(parseFloat(StripDollar(last'.newPrice)))) =>
         /\ SameShape(parts, parts')
         /\ \A ij \in Targeted(parts, last'.partId, last'.storeId) :
               /\ HistoryAt(parts', ij) = HistoryAt(parts, ij)
               /\ parts'[ij[1]].stores[ij[2]].price = last'.newPrice]_vars

\* The price of a store with one history entry was set to "abc".
C6_Witness ==
    /\ LastIs("handlePriceUpdate")
    /\ last.newPrice = P_bad
    /\ \E ij \in Targeted(parts, last.partId, last.storeId) :
          /\ parts[ij[1]].stores[ij[2]].price = P_bad
          /\ HistoryAt(parts, ij) = <<[date |-> 0, price |-> Num(449990)]>>


(***************************************************************************)
(* C7.  Saving under a valid name appends a build whose parts are the      *)
(* catalog at that moment, loading a build makes the catalog that build's  *)
(* parts, and so loading the build just saved yields the catalog as it was *)
(* at the save.  (An invalid name saves nothing.)                          *)
(***************************************************************************)
C7_SaveThenLoadRestores ==
    [][/\ (last'.op = "handleSaveBuild" /\ last'.saved) =>
             /\ Len(savedBuilds') = Len(savedBuilds) + 1
             /\ savedBuilds'[Len(savedBuilds')].parts = parts
             /\ parts' = parts
       /\ (last'.op = "handleSaveBuild" /\ ~last'.saved) =>
             /\ savedBuilds' = savedBuilds
             /\ storage' = storage
       /\ last'.op = "handleLoadBuild" => parts' = last'.build.parts
       /\ (LastIs("handleSaveBuild") /\ last.saved
             /\ last'.op = "handleLoadBuild"
             /\ last'.build = savedBuilds[Len(savedBuilds)]) =>
             parts' = last.catalog]_vars

\* A build saved in this session from a catalog that is no stored seed was
\* loaded right after the save, over another catalog or the same one.
C7_Witness ==
    /\ LastIs("handleLoadBuild")
    /\ last.after = "handleSaveBuild"
    /\ last.build.id >= 0
    /\ last.build = savedBuilds[Len(savedBuilds)]
    /\ parts # <<>>
    /\ \A i \in 1..Len(SeedBuilds) : parts # SeedBuilds[i].parts
    /\ parts = last.build.parts

(***************************************************************************)
(* C8.  No operation other than deleting builds (and restarting the page)  *)
(* changes a build that is in the list: adding and deleting parts,         *)
(* toggling stock, price input and update, alerts, loading any build and   *)
(* saving other builds leave its id, name, date and parts as they are, in  *)
(* its place in the list.                                                  *)
(***************************************************************************)
C8_SavedBuildImmutable ==
    [][last'.op \notin {"handleDeleteBuild", "Reload", "LoadSavedBuilds"} =>
         /\ Len(savedBuilds') >= Len(savedBuilds)
         /\ \A i \in 1..Len(savedBuilds) : savedBuilds'[i] = savedBuilds[i]]_vars

\* A price update changed the catalog that a build saved in this session
\* was taken from.
C8_Witness ==
    /\ LastIs("handlePriceUpdate")
    /\ \E i \in 1..Len(savedBuilds) :
          LET b == savedBuilds[i]
          IN  /\ b.id >= 0
              /\ b.parts # <<>>
              /\ b.parts # parts
              /\ Len(b.parts) = Len(parts)
              /\ \A k \in 1..Len(parts) : b.parts[k].id = parts[k].id
              /\ \E k \in 1..Len(parts) : parts[k].id = last.partId

(***************************************************************************)
(* C9 as stated: deleting a build by id removes exactly one build, one     *)
(* with that id, leaves every other build in place and in order, writes    *)
(* the result to storage and leaves the catalog alone.                     *)
(***************************************************************************)
RemoveAt(s, i) == SubSeq(s, 1, i - 1) \o SubSeq(s, i + 1, Len(s))

C9_DeleteRemovesExactlyThatBuild ==
    [][last'.op = "handleDeleteBuild" =>
         /\ \E i \in 1..Len(savedBuilds) :
               /\ savedBuilds[i].id = last'.buildId
               /\ savedBuilds' = RemoveAt(savedBuilds, i)
         /\ storage' = JSONstringify(savedBuilds')
         /\ parts' = parts]_vars

(***************************************************************************)
(* C10.  Loading a build makes the catalog exactly the parts of the chosen *)
(* build, which is one of the list, so that no part of the previous        *)
(* catalog stays unless the build holds it, and leaves the list of builds  *)
(* and the storage unchanged.                                              *)
(***************************************************************************)
C10_LoadReplacesWholesale ==
    [][last'.op = "handleLoadBuild" =>
         /\ \E i \in 1..Len(savedBuilds) : savedBuilds[i] = last'.build
         /\ parts' = last'.build.parts
         /\ \A k \in 1..Len(parts') :
               \E m \in 1..Len(last'.build.parts) : parts'[k] = last'.build.parts[m]
         /\ savedBuilds' = savedBuilds
         /\ storage' = storage]_vars

\* A load replaced a catalog that held a part the chosen build does not hold.
C10_Witness ==
    /\ LastIs("handleLoadBuild")
    /\ parts = last.build.parts
    /\ parts # <<>>
    /\ \E k \in 1..Len(last.replaced) :
          \A m \in 1..Len(parts) : parts[m] # last.replaced[k]


(***************************************************************************)
(* C11.  A save under a name with a character other than blanks appends    *)
(* one build at the end of the list, with the name as typed, the current   *)
(* date and the whole catalog; the earlier builds stay as they are and in  *)
(* their order, the storage holds the serialization of the whole new list, *)
(* and the catalog is unchanged.                                           *)
(***************************************************************************)
IsBlank(s) == \A i \in 1..Len(s) : s[i] = " "

C11_SaveAppendsOneBuild ==
    [][(last'.op = "handleSaveBuild" /\ ~IsBlank(buildName)) =>
         /\ Len(savedBuilds') = Len(savedBuilds) + 1
         /\ \A i \in 1..Len(savedBuilds) : savedBuilds'[i] = savedBuilds[i]
         /\ LET b == savedBuilds'[Len(savedBuilds')]
            IN  /\ b.name = buildName
                /\ b.date = today
                /\ b.parts = parts
         /\ storage' = JSONstringify(savedBuilds')
         /\ parts' = parts]_vars

\* A third build was saved after the two stored ones, from a loaded catalog.
C11_Witness ==
    /\ LastIs("handleSaveBuild")
    /\ last.saved
    /\ Len(savedBuilds) = 3
    /\ savedBuilds[3].id >= 0
    /\ savedBuilds[3].parts # <<>>
    /\ parts = savedBuilds[3].parts

(***************************************************************************)
(* C12.  A save under a name that is empty or all blanks changes nothing:  *)
(* the list of builds, the storage, the catalog, the typed name and the    *)
(* open save dialog stay as they are.                                      *)
(***************************************************************************)
C12_BlankNameSavesNothing ==
    [][(last'.op = "handleSaveBuild" /\ IsBlank(buildName)) =>
         /\ savedBuilds' = savedBuilds
         /\ storage' = storage
         /\ parts' = parts
         /\ buildName' = buildName
         /\ showSaveDialog' = showSaveDialog]_vars

\* A save was tried under the name " ", with a catalog on the page.
C12_Witness ==
    /\ LastIs("handleSaveBuild")
    /\ ~last.saved
    /\ buildName = <<" ">>
    /\ showSaveDialog
    /\ parts # <<>>


(***************************************************************************)
(* C13.  Submitting the form with an empty part name, or with a listing    *)
(* whose name, url or price is empty, adds no part: the catalog is         *)
(* unchanged, the form stays open and keeps its contents.                  *)
(***************************************************************************)
MissingField(form) ==
    \/ form.name = <<>>
    \/ \E i \in 1..Len(form.stores) :
          \/ form.stores[i].name = <<>>
          \/ form.stores[i].url = <<>>
          \/ form.stores[i].price = <<>>

C13_InvalidFormAddsNothing ==
    [][(last'.op = "handleAddPart" /\ MissingField(newPart)) =>
         /\ parts' = parts
         /\ showAddForm /\ showAddForm'
         /\ newPart' = newPart]_vars

\* The form was submitted with the part named and a listing without price.
C13_Witness ==
    /\ LastIs("handleAddPart")
    /\ ~last.valid
    /\ showAddForm
    /\ newPart.name # <<>>
    /\ \E i \in 1..Len(newPart.stores) :
          /\ newPart.stores[i].name # <<>>
          /\ newPart.stores[i].price = <<>>


(***************************************************************************)
(* C14 as stated: in every state every part of the catalog has at least    *)
(* one store, and the add-part form holds at least one store listing.      *)
(***************************************************************************)
C14_AtLeastOneStore ==
    /\ \A i \in 1..Len(parts) : Len(parts[i].stores) >= 1
    /\ Len(newPart.stores) >= 1


(***************************************************************************)
(* C15.  toggleStock(partId, storeId) negates inStock of the store with    *)
(* that id in the part with that id and sets the lastChecked of that part  *)
(* to the current date; the other fields of that store, the other stores   *)
(* of the part, the other parts, the order of parts and stores, and the    *)
(* saved builds are unchanged.                                             *)
(***************************************************************************)
SameBut(rec, rec2, fields) ==
    /\ DOMAIN rec2 = DOMAIN rec
    /\ \A f \in DOMAIN rec \ fields : rec2[f] = rec[f]

C15_ToggleStockFrame ==
    [][last'.op = "toggleStock" =>
         /\ SameShape(parts, parts')
         /\ savedBuilds' = savedBuilds /\ storage' = storage
         /\ \A i \in 1..Len(parts) :
               IF parts[i].id # last'.partId THEN parts'[i] = parts[i]
               ELSE /\ SameBut(parts[i], parts'[i], {"lastChecked", "stores"})
                    /\ parts'[i].lastChecked = today
                    /\ \A j \in 1..Len(parts[i].stores) :
                          LET st == parts[i].stores[j]
                              st2 == parts'[i].stores[j]
                          IN  IF st.id # last'.storeId THEN st2 = st
                              ELSE /\ SameBut(st, st2, {"inStock"})
                                   /\ st2.inStock = ~st.inStock]_vars

\* On day 1 the second store of a two-store part was toggled into stock,
\* next to another part that still has its date of day 0.
C15_Witness ==
    /\ LastIs("toggleStock")
    /\ today = 1
    /\ Len(parts) = 2
    /\ parts[1].id = last.partId /\ parts[1].lastChecked = 1
    /\ Len(parts[1].stores) = 2
    /\ parts[1].stores[2].id = last.storeId
    /\ parts[1].stores[1].inStock /\ parts[1].stores[2].inStock
    /\ parts[2].lastChecked = 0

(***************************************************************************)
(* C16.  handlePriceUpdate(partId, storeId, newPrice) sets the price of    *)
(* the targeted store to newPrice, clears its edit buffer and sets the     *)
(* lastChecked of its part to the current date, whether or not the price   *)
(* changed or parses; inStock and the alert of that store (and its id,     *)
(* name and url), the other stores, the other parts and the saved builds   *)
(* are unchanged.                                                          *)
(***************************************************************************)
C16_PriceUpdateFrame ==
    [][last'.op = "handlePriceUpdate" =>
         /\ SameShape(parts, parts')
         /\ savedBuilds' = savedBuilds /\ storage' = storage
         /\ \A i \in 1..Len(parts) :
               IF parts[i].id # last'.partId THEN parts'[i] = parts[i]
               ELSE /\ SameBut(parts[i], parts'[i], {"lastChecked", "stores"})
                    /\ parts'[i].lastChecked = today
                    /\ \A j \in 1..Len(parts[i].stores) :
                          LET st == parts[i].stores[j]
                              st2 == parts'[i].stores[j]
                          IN  IF st.id # last'.storeId THEN st2 = st
                              ELSE /\ SameBut(st, st2,
                                              {"price", "tempPrice", "priceHistory"})
                                   /\ st2.price = last'.newPrice
                                   /\ st2.tempPrice = Undefined]_vars

\* On day 1 a price was set to a text that does not parse: the part has the
\* date of day 1, the store the text and an empty edit buffer, and its
\* history is still the one entry of day 0.
C16_Witness ==
    /\ LastIs("handlePriceUpdate")
    /\ last.newPrice = P_bad
    /\ today = 1
    /\ \E ij \in Targeted(parts, last.partId, last.storeId) :
          /\ parts[ij[1]].lastChecked = 1
          /\ parts[ij[1]].stores[ij[2]].price = P_bad
          /\ parts[ij[1]].stores[ij[2]].tempPrice = Undefined
          /\ Len(HistoryAt(parts, ij)) = 1
          /\ Len(parts[ij[1]].stores) = 2


(***************************************************************************)
(* C17 as stated: once the startup load has run, the storage holds the     *)
(* serialization of the list of builds in memory (no stored key: empty     *)
(* list), after every save and delete too, and a restart of the page       *)
(* gives back the list as it was before the restart.  An edit buffer that  *)
(* is undefined counts as one that is absent.                              *)
(***************************************************************************)
Agree ==
    IF storage = Null THEN savedBuilds = <<>>
    ELSE storage = JSONstringify(savedBuilds)

SameData(builds) ==
    LET OnStore(store) == [store EXCEPT !.tempPrice = IF @ = Undefined THEN Absent ELSE @]
        OnPart(part) == [part EXCEPT !.stores = MapSeq(@, OnStore)]
        OnBuild(build) == [build EXCEPT !.parts = MapSeq(@, OnPart)]
    IN  MapSeq(builds, OnBuild)

C17_StorageAndMemoryAgree ==
    [][/\ Ready' => Agree'
       /\ (LastIs("Reload") /\ last'.op = "LoadSavedBuilds") =>
             SameData(savedBuilds') = SameData(last.before)]_vars


(***************************************************************************)
(* C17, amended.  Once the startup load has run, the storage holds the     *)
(* serialization of the list of builds in memory (no stored key: empty     *)
(* list), after every save and delete too, and a restart of the page gives *)
(* back the list that this serialization holds: the list of before the     *)
(* restart with every NaN or infinite number turned into null and every    *)
(* undefined property dropped.                                             *)
(***************************************************************************)
C17_StoredListAgrees ==
    [][/\ Ready' => Agree'
       /\ (LastIs("Reload") /\ last'.op = "LoadSavedBuilds") =>
             savedBuilds' = JSONparse(JSONstringify(last.before))]_vars

\* The page was restarted after a save in this session; the restored list
\* holds an alert that is null.
C17_Witness ==
    /\ LastIs("LoadSavedBuilds")
    /\ Agree
    /\ Len(savedBuilds) = 3
    /\ \E p \in 1..Len(savedBuilds[3].parts) :
          \E st \in 1..Len(savedBuilds[3].parts[p].stores) :
              savedBuilds[3].parts[p].stores[st].priceAlert = Null


(***************************************************************************)
(* C18 as stated: no two parts of the catalog have the same id.            *)
(***************************************************************************)
C18_PartIdsUnique ==
    \A i \in 1..Len(parts) : \A j \in 1..Len(parts) :
        i # j => parts[i].id # parts[j].id


(***************************************************************************)
(* C19.  With the sort key "availability" the displayed list has its       *)
(* available parts first: no part without a store in stock stands before   *)
(* a part with one, whatever the catalog, the type filter and the engine   *)
(* that sorts.  (The list is the parts of the selected type, each once.)   *)
(***************************************************************************)
IsPermutation(s, t) ==
    /\ Len(s) = Len(t)
    /\ \E f \in [1..Len(s) -> 1..Len(s)] :
          /\ \A i, j \in 1..Len(s) : i # j => f[i] # f[j]
          /\ \A i \in 1..Len(s) : s[i] = t[f[i]]

Displayed(engine) == filteredAndSortedParts(engine)

OfSelectedType ==
    LET OfType(part) == selectedType = "all" \/ part.type = selectedType
    IN  SelectSeq(parts, OfType)

Available(part) == \E j \in 1..Len(part.stores) : part.stores[j].inStock

C19_AvailableFirst ==
    sortBy = "availability" =>
        \A engine \in Engines :
            LET view == Displayed(engine)
            IN  /\ IsPermutation(view, OfSelectedType)
                /\ \A i, j \in 1..Len(view) :
                      i < j => ~(~Available(view[i]) /\ Available(view[j]))

\* Four parts in the order out of stock, in stock, out of stock, in stock,
\* shown by availability.
C19_Witness ==
    /\ LastIs("setSortBy")
    /\ sortBy = "availability"
    /\ selectedType = "all"
    /\ Len(parts) = 4
    /\ ~Available(parts[1]) /\ Available(parts[2])
    /\ ~Available(parts[3]) /\ Available(parts[4])
    /\ \A engine \in Engines :
          /\ Available(Displayed(engine)[1]) /\ Available(Displayed(engine)[2])
          /\ ~Available(Displayed(engine)[4])

(***************************************************************************)
(* C20.  With the sort key "price" and every price parseable, the          *)
(* displayed list is in non-decreasing order of best price: of two         *)
(* neighbours the first has a best price less than or equal to that of the *)
(* second.                                                                 *)
(***************************************************************************)
C20_PriceAscending ==
    (sortBy = "price"
        /\ \A i \in 1..Len(parts) : Len(parts[i].stores) >= 1 /\ AllParse(parts[i].stores)) =>
        \A engine \in Engines :
            LET view == Displayed(engine)
            IN  /\ IsPermutation(view, OfSelectedType)
                /\ \A i \in 1..Len(view) - 1 :
                      /\ BestValue(view[i]).k = "num"
                      /\ BestValue(view[i + 1]).k = "num"
                      /\ BestValue(view[i]).v <= BestValue(view[i + 1]).v

\* Four parts at 459.99, 429.99, 449.99 and 429.99, shown by price.
C20_Witness ==
    /\ LastIs("setSortBy")
    /\ sortBy = "price"
    /\ selectedType = "all"
    /\ Len(parts) = 4
    /\ parts[1].stores[1].price = P_459 /\ parts[2].stores[1].price = P_429
    /\ parts[3].stores[1].price = P_449 /\ parts[4].stores[1].price = P_429
    /\ \A engine \in Engines :
          /\ getBestPrice(Displayed(engine)[1].stores) = P_429
          /\ getBestPrice(Displayed(engine)[3].stores) = P_449
          /\ getBestPrice(Displayed(engine)[4].stores) = P_459

(***************************************************************************)
(* C21.  Under every type filter, sort key and sorting engine the          *)
(* displayed list holds each part of the catalog whose type is the         *)
(* selected one (every part when the selection is "all") as many times as  *)
(* the catalog does, and nothing else: the sort only permutes the parts    *)
(* that pass the filter.                                                   *)
(***************************************************************************)
Count(s, x) == Cardinality({i \in 1..Len(s) : s[i] = x})

Selected(part) == selectedType = "all" \/ part.type = selectedType

C21_DisplayedIsFilteredCatalog ==
    \A engine \in Engines :
        LET view == Displayed(engine)
        IN  /\ \A i \in 1..Len(parts) :
                  Count(view, parts[i])
                      = IF Selected(parts[i]) THEN Count(parts, parts[i]) ELSE 0
            /\ \A k \in 1..Len(view) : \E i \in 1..Len(parts) : view[k] = parts[i]

\* Four parts of two types; one type was selected after a sort key other
\* than the name, and the two parts shown are not in their catalog order.
C21_Witness ==
    /\ LastIs("setSelectedType")
    /\ selectedType = partTypes[2]
    /\ sortBy # "name"
    /\ Len(parts) = 4
    /\ \E i \in 1..4 : parts[i].type = partTypes[1]
    /\ \A engine \in Engines :
          /\ Len(Displayed(engine)) = 2
          /\ Displayed(engine) # OfSelectedType

(***************************************************************************)
(* C22.  setPriceAlert(partId, storeId, price) changes nothing but the     *)
(* priceAlert of the store with that id in the part with that id: the      *)
(* price, inStock, history (and id, name, url, edit buffer) of that store, *)
(* the lastChecked of its part, the other stores, the other parts, the     *)
(* order of parts and stores, and the saved builds are unchanged.          *)
(***************************************************************************)
C22_PriceAlertFrame ==
    [][last'.op = "setPriceAlert" =>
         /\ SameShape(parts, parts')
         /\ savedBuilds' = savedBuilds /\ storage' = storage
         /\ \A i \in 1..Len(parts) :
               IF parts[i].id # last'.partId THEN parts'[i] = parts[i]
               ELSE /\ SameBut(parts[i], parts'[i], {"stores"})
                    /\ \A j \in 1..Len(parts[i].stores) :
                          LET st == parts[i].stores[j]
                              st2 == parts'[i].stores[j]
                          IN  IF st.id # last'.storeId THEN st2 = st
                              ELSE SameBut(st, st2, {"priceAlert"})]_vars

\* On day 1 an alert of 400 was set on the second store of a part that was
\* last checked on day 0; the first store has no alert.
C22_Witness ==
    /\ LastIs("setPriceAlert")
    /\ today = 1
    /\ \E i \in 1..Len(parts) :
          /\ parts[i].id = last.partId
          /\ parts[i].lastChecked = 0
          /\ Len(parts[i].stores) = 2
          /\ parts[i].stores[2].id = last.storeId
          /\ parts[i].stores[2].priceAlert = Num(400000)
          /\ parts[i].stores[1].priceAlert = Absent

(***************************************************************************)
(* C23.  Submitting a form with the part named and every listing given a   *)
(* name, a url and a price appends one part at the end of the catalog: it  *)
(* has the name and the type of the form and its listings in their order   *)
(* (each with the id, name, url, price, inStock and alert of the listing), *)
(* and the current date as lastChecked; the parts that were there keep     *)
(* their content and their order; the form is closed and holds the default *)
(* type, no name and one blank listing.                                    *)
(***************************************************************************)
C23_ValidSubmitAppendsPart ==
    [][(last'.op = "handleAddPart" /\ ~MissingField(newPart)) =>
         /\ Len(parts') = Len(parts) + 1
         /\ \A i \in 1..Len(parts) : parts'[i] = parts[i]
         /\ LET p == parts'[Len(parts')]
            IN  /\ p.name = newPart.name
                /\ p.type = newPart.type
                /\ p.lastChecked = today
                /\ Len(p.stores) = Len(newPart.stores)
                /\ \A j \in 1..Len(p.stores) :
                      SameBut(newPart.stores[j], p.stores[j], {"priceHistory"})
         /\ ~showAddForm'
         /\ newPart'.name = <<>>
         /\ newPart'.type = partTypes[1]
         /\ Len(newPart'.stores) = 1
         /\ SameBut(BlankStore(0), newPart'.stores[1], {"id"})]_vars

\* A part of the second type with two different listings was added after
\* the part that was in the catalog.
C23_Witness ==
    /\ LastIs("handleAddPart")
    /\ last.valid
    /\ Len(parts) = 2
    /\ parts[1].name = <<"B">>
    /\ parts[2].name = <<"A">>
    /\ parts[2].type = partTypes[2]
    /\ Len(parts[2].stores) = 2
    /\ parts[2].stores[1].price = P_449
    /\ parts[2].stores[2].price = P_429
    /\ ~showAddForm
    /\ newPart.type = partTypes[1]

(***************************************************************************)
(* C24.  handleDeletePart(id) removes the parts with that id from the      *)
(* catalog and nothing else: every part with another id stays, with its    *)
(* content and in its order; the saved builds and the storage are          *)
(* unchanged; when no part has the id the catalog is unchanged.            *)
(***************************************************************************)
C24_DeleteRemovesThatPart ==
    [][last'.op = "handleDeletePart" =>
         LET id == last'.id
             Before(i) == Cardinality({k \in 1..(i - 1) : parts[k].id = id})
         IN  /\ Len(parts') = Len(parts) - Before(Len(parts) + 1)
             /\ \A i \in 1..Len(parts) :
                   parts[i].id # id => parts'[i - Before(i)] = parts[i]
             /\ \A k \in 1..Len(parts') : parts'[k].id # id
             /\ (\A i \in 1..Len(parts) : parts[i].id # id) => parts' = parts
             /\ savedBuilds' = savedBuilds
             /\ storage' = storage]_vars

\* The first of the two parts of a loaded build was deleted: the second is
\* the catalog, and the builds still hold both.
C24_Witness ==
    /\ LastIs("handleDeletePart")
    /\ last.id = SeedCPU.id
    /\ parts = <<SeedGPU>>
    /\ Len(savedBuilds) = 2
    /\ savedBuilds[2].parts = <<SeedCPU, SeedGPU>>
    /\ storage = JSONstringify(savedBuilds)

(***************************************************************************)
(* C25.  handlePriceInputChange(partId, storeId, value) changes nothing    *)
(* but the edit buffer of the targeted store, which becomes the value: the *)
(* store's price, history and inStock, the lastChecked of its part, the    *)
(* other stores and parts and the saved builds are unchanged, and so are   *)
(* the best price and the availability of every part and the total build   *)
(* cost.  A price update leaves the targeted store with an empty buffer.   *)
(***************************************************************************)
C25_InputBufferFrame ==
    [][/\ last'.op = "handlePriceInputChange" =>
             /\ SameShape(parts, parts')
             /\ savedBuilds' = savedBuilds /\ storage' = storage
             /\ \A i \in 1..Len(parts) :
                   /\ getBestPrice(parts'[i].stores) = getBestPrice(parts[i].stores)
                   /\ getAvailabilityStatus(parts'[i].stores)
                         = getAvailabilityStatus(parts[i].stores)
                   /\ IF parts[i].id # last'.partId THEN parts'[i] = parts[i]
                      ELSE /\ SameBut(parts[i], parts'[i], {"stores"})
                           /\ \A j \in 1..Len(parts[i].stores) :
                                 LET st == parts[i].stores[j]
                                     st2 == parts'[i].stores[j]
                                 IN  IF st.id # last'.storeId THEN st2 = st
                                     ELSE /\ SameBut(st, st2, {"tempPrice"})
                                          /\ st2.tempPrice = Str(last'.value)
             /\ ReduceTotal(parts', Num(0)) = ReduceTotal(parts, Num(0))
       /\ last'.op = "handlePriceUpdate" =>
             \A ij \in Targeted(parts', last'.partId, last'.storeId) :
                 parts'[ij[1]].stores[ij[2]].tempPrice.k \notin {"str"}]_vars

\* $429.99 was typed into the row of a store at $449.99 of a part with two
\* stores: the price is still $449.99 and so is the best price of the part.
C25_Witness ==
    /\ LastIs("handlePriceInputChange")
    /\ last.value = P_429
    /\ \E ij \in Targeted(parts, last.partId, last.storeId) :
          /\ Len(parts[ij[1]].stores) = 2
          /\ parts[ij[1]].stores[ij[2]].tempPrice = Str(P_429)
          /\ parts[ij[1]].stores[ij[2]].price = P_449
          /\ getBestPrice(parts[ij[1]].stores) = P_449
          /\ getTotalBuildCost = Num(449990)

(***************************************************************************)
(* C26.  When a part is added, each of its stores starts with a history of *)
(* one entry, the current date with the parsed price, if the text of its   *)
(* price parses to a number, and with the empty history if it does not.    *)
(***************************************************************************)
C26_NewPartHistories ==
    [][(last'.op = "handleAddPart" /\ ~MissingField(newPart)) =>
         LET p == parts'[Len(parts')]
         IN  /\ Len(parts') = Len(parts) + 1
             /\ Len(p.stores) = Len(newPart.stores)
             /\ \A j \in 1..Len(p.stores) :
                   LET n == parseFloat(StripDollar(p.stores[j].price))
                   IN  /\ p.stores[j].price = newPart.stores[j].price
                       /\ p.stores[j].priceHistory =
                             IF isNaN(n) THEN <<>>
                             ELSE <<[date |-> today, price |-> n]>>]_vars

\* A part was added on day 1 with a listing at $449.99 and one at "abc".
C26_Witness ==
    /\ LastIs("handleAddPart")
    /\ last.valid
    /\ today = 1
    /\ LET p == parts[Len(parts)]
       IN  /\ Len(p.stores) = 2
           /\ p.stores[1].price = P_449
           /\ p.stores[1].priceHistory = <<[date |-> 1, price |-> Num(449990)]>>
           /\ p.stores[2].price = P_bad
           /\ p.stores[2].priceHistory = <<>>

(***************************************************************************)
(* C27.  From an empty catalog and an empty storage, through parts added,  *)
(* prices updated and builds saved and loaded, no price history, in the    *)
(* catalog or in a saved build, has two neighbouring entries with the same *)
(* date and the same price.                                                *)
(***************************************************************************)
NoRepeat(h) ==
    \A k \in 1..(Len(h) - 1) : ~(h[k].date = h[k + 1].date /\ h[k].price = h[k + 1].price)

NoRepeatIn(ps) ==
    \A i \in 1..Len(ps) : \A j \in 1..Len(ps[i].stores) :
        NoRepeat(ps[i].stores[j].priceHistory)

C27_NoRepeatedNeighbours ==
    /\ NoRepeatIn(parts)
    /\ \A b \in 1..Len(savedBuilds) : NoRepeatIn(savedBuilds[b].parts)

\* A build was saved with a history that ends with $429.99 on day 0, and
\* the price was then set to $429.99 again on day 0: the history of the
\* catalog still is the one of the build.
C27_Witness ==
    /\ LastIs("handlePriceUpdate")
    /\ last.newPrice = P_429
    /\ today = 0
    /\ Len(parts) = 1
    /\ Len(parts[1].stores) = 1
    /\ parts[1].stores[1].priceHistory =
          <<[date |-> 0, price |-> Num(449990)], [date |-> 0, price |-> Num(429990)]>>
    /\ \E b \in 1..Len(savedBuilds) :
          /\ Len(savedBuilds[b].parts) = 1
          /\ savedBuilds[b].parts[1].stores[1].priceHistory
                = parts[1].stores[1].priceHistory

(***************************************************************************)
(* C28.  Enter in a price input runs the price update twice, from the key  *)
(* handler and from the blur it causes, with the same arguments; the       *)
(* catalog after the event is the catalog after one update with these      *)
(* arguments on that date.  A price update done again with the same        *)
(* arguments on the same date changes nothing; the two runs add at most    *)
(* one entry to a history, and the stores and parts that are not targeted  *)
(* keep everything, their edit buffers included.  Another key changes      *)
(* nothing.                                                                *)
(***************************************************************************)
C28_EnterCommitsOnce ==
    [][/\ (last'.op = "handlePriceKeyDown" /\ last'.key = "Enter") =>
             /\ parts' = PriceUpdated(parts, last'.partId, last'.storeId,
                                      last'.value, today)
             /\ SameShape(parts, parts')
             /\ \A i \in 1..Len(parts) : \A j \in 1..Len(parts[i].stores) :
                   /\ Len(parts'[i].stores[j].priceHistory)
                         <= Len(parts[i].stores[j].priceHistory) + 1
                   /\ <<i, j>> \notin Targeted(parts, last'.partId, last'.storeId)
                         => parts'[i].stores[j] = parts[i].stores[j]
       /\ (last'.op = "handlePriceKeyDown" /\ last'.key # "Enter") => parts' = parts
       /\ last'.op = "handlePriceUpdate" =>
             PriceUpdated(parts', last'.partId, last'.storeId, last'.newPrice, today)
                = parts']_vars

\* $429.99 was typed into the row of a store at $449.99 and committed with
\* Enter: one entry was added to the history, and the buffer is empty.
C28_Witness ==
    /\ LastIs("handlePriceKeyDown")
    /\ last.key = "Enter"
    /\ last.value = P_429
    /\ \E ij \in Targeted(parts, last.partId, last.storeId) :
          /\ parts[ij[1]].stores[ij[2]].price = P_429
          /\ parts[ij[1]].stores[ij[2]].tempPrice = Undefined
          /\ HistoryAt(parts, ij) = <<[date |-> 0, price |-> Num(449990)],
                                      [date |-> 0, price |-> Num(429990)]>>

(***************************************************************************)
(* C29 as stated: in every state every store of every part of the catalog  *)
(* has a name, a url and a price that are not empty, through parts added,  *)
(* prices typed and prices updated.                                        *)
(***************************************************************************)
C29_StoreFieldsNonEmpty ==
    \A i \in 1..Len(parts) : \A j \in 1..Len(parts[i].stores) :
        /\ parts[i].stores[j].name # <<>>
        /\ parts[i].stores[j].url # <<>>
        /\ parts[i].stores[j].price # <<>>

(***************************************************************************)
(* C30.  Rendering the page, which computes the total build cost and the   *)
(* filtered and sorted list with the best price and the availability of    *)
(* its parts, under every type filter and sort key, leaves the catalog     *)
(* (its parts and their stores, content and order) and the list of builds  *)
(* as they are; what is shown is the list the state determines.            *)
(***************************************************************************)
C30_RenderChangesNothing ==
    [][last'.op = "render" =>
         /\ parts' = parts
         /\ savedBuilds' = savedBuilds
         /\ storage' = storage
         /\ selectedType' = selectedType /\ sortBy' = sortBy
         /\ \E engine \in Engines : last'.view = Displayed(engine)
         /\ last'.total = getTotalBuildCost]_vars

\* Four parts at 459.99, 429.99, 449.99 and 429.99 were rendered by price:
\* the list shown starts with a part at 429.99, the catalog with the one at
\* 459.99.
C30_Witness ==
    /\ LastIs("render")
    /\ sortBy = "price"
    /\ selectedType = "all"
    /\ Len(parts) = 4
    /\ parts[1].stores[1].price = P_459 /\ parts[2].stores[1].price = P_429
    /\ parts[3].stores[1].price = P_449 /\ parts[4].stores[1].price = P_429
    /\ Len(last.view) = 4
    /\ last.view[1].stores[1].price = P_429
    /\ last.view[4] = parts[1]
    /\ last.total = Num(459990 + 429990 + 449990 + 429990)

====
